---- MODULE Spec2Model ----
(***************************************************************************)
(* passio: the session lifecycle of internal/app (App.Lock, App.Unlock,    *)
(* App.CheckAutoLock, App.EncryptPassword, App.DecryptMasterPassword), the *)
(* configuration that holds the verification material, the AES-GCM cipher  *)
(* of internal/crypto and the commands of internal/cmd that drive them.    *)
(*                                                                         *)
(* One App object is modelled.  Its methods and the RunE handlers of the   *)
(* commands are the actions; New models a new process that builds a fresh  *)
(* App from the configuration file and the database left on disk.          *)
(* A derived key is the tuple <<"pbkdf2", password, salt>> (PBKDF2 taken   *)
(* as collision free) and the empty byte slice is <<>>.  A blob is a       *)
(* sequence of bytes: the nonce, then one ciphertext byte for every byte   *)
(* of the plaintext, then the GCM tag.  A ciphertext byte and a tag byte   *)
(* are symbolic: they record what AES-GCM computed them from.  Passwords   *)
(* whose characters matter are sequences of one-character strings.         *)
(***************************************************************************)
EXTENDS Integers, Sequences, FiniteSets, TLC

\* ------------------------------------------------------------------ bounds
\* the clock runs from 0 to MaxTime seconds
MaxTime == 3
\* the days that pass
MaxDays == 2
\* the random 32-byte salts generateSalt can draw
NumSalts == 2
\* the random 12-byte nonces Encrypt can draw
NumNonces == 2
\* the count of failed Unlock calls saturates here
MaxFailed == 2
\* gcm.NonceSize(): the bytes of a nonce (12 in crypto/cipher, fewer here)
NonceLen == 2
\* gcm.Overhead(): the bytes of a tag (16 in crypto/cipher, fewer here)
TagLen == 2
\* the longest plaintext handed to Encrypt directly
MaxPlainLen == 2
\* the longest of the short passwords CheckPasswordHealth is given
MaxHealthLen == 2
\* the longest password asked of the generator
MaxGenLen == 3
\* the count of nested calls of generatePasswordWithOptions saturates here
MaxDepth == 2

\* ------------------------------------------------------- program constants
DefaultAutoLockTimeout == 300
DefaultPasswordLength == 16
DefaultPasswordExpiration == 90
MinPasswordLength == 8
MinMasterPasswordLen == 8
KeySize == 32

\* ------------------------------------------------------------ input values
\* what a user may type as a master password ("wrong" is shorter than 8)
Passphrases == {"CorrectHorse1!", "wrong"}
\* the secrets stored in entries
Plaintexts == {<<"p", "w">>}
\* the entry names given to add
Names == {"github"}
\* the values `config set auto_lock_timeout` is called with
Timeouts == {-1, 0, 2}
Salts == {<<s>> : s \in 1..NumSalts}
Nonces == 1..NumNonces
\* all sequences over S of at most n elements
SeqsUpTo(S, n) == UNION {[1..k -> S] : k \in 0..n}
\* the plaintexts handed to Encrypt directly, the empty one included
PlainBytes == {"a", "b"}
CipherPlaintexts == SeqsUpTo(PlainBytes, MaxPlainLen)

\* ------------------------------------------------------------------ errors
Nil == "nil"
ErrInvalidMasterPassword == "invalid master password"
ErrLockedDecrypt == "passio is locked"
ErrLockedEncrypt == "password manager is locked"
ErrLockedCmd == "passio is locked. Please unlock first"
ErrAlreadyInitialized == "passio is already initialized. Use --force to reinitialize"
ErrNotInitialized == "passio is not initialized. Run 'pm init' first"
ErrPasswordsDoNotMatch == "passwords do not match"
ErrMasterTooShort == "master password must be at least 8 characters long"
ErrInvalidKeySize == "crypto/aes: invalid key size"
ErrAuthFailed == "cipher: message authentication failed"
ErrEntryExists == "entry already exists"
ErrEntryNotFound == "entry not found"
ErrInvalidEntry == "invalid entry"
ErrEntryNameIsReq == "entry name is required"
ErrEntryPasswordIsReq == "entry password is required"
ErrNegativeTimeout == "timeout values must be non-negative"
ErrPasswordLengthTooSmall == "password length must be at least 8"
ErrLengthNotPositive == "password length must be positive"
LockedErrors == {ErrLockedDecrypt, ErrLockedEncrypt, ErrLockedCmd}

VARIABLES
    isLocked,       \* App.isLocked
    lastActivity,   \* App.lastActivity
    config,         \* *App.Config, the configuration in memory
    file,           \* the configuration file on disk
    entries,        \* the rows of the entries table
    now,            \* the clock time.Now reads
    cipherKey,      \* history: the key of the most recent Encrypt/Decrypt call
    initPass,       \* history: the passphrase of the last successful init
    failedUnlocks,  \* history: failed Unlock calls since the last init
    last,           \* history: the most recent call and its result
    followed,       \* history: a blob EncryptPassword returned, with its secret
    fn              \* the most recent call of a function under test and its result

\* the App, its files and their history
app == <<isLocked, lastActivity, config, file, entries, now,
         cipherKey, initPass, failedUnlocks, last>>

\* what the App's own actions leave alone
aux == <<followed, fn>>

vars == <<app, aux>>

\* the state of the App object itself
AppState == <<isLocked, lastActivity, config>>

\* ------------------------------------------------------------------ crypto
\* len() of a symbolic key: a derived key has 32 bytes, <<>> has none
KeyLen(key) == IF key = <<>> THEN 0 ELSE KeySize

DeriveKey(password, salt) == <<"pbkdf2", password, salt>>

\* aes.NewCipher accepts keys of 16, 24 or 32 bytes
NewCipherOk(key) == KeyLen(key) \in {16, 24, 32}

\* the bytes rand.Read fills the nonce with, for the draw numbered n
NonceBytes(n) == [i \in 1..NonceLen |-> <<n>>]

\* AES-CTR: byte i of the plaintext XORed with the key stream of key and nonce
CtrByte(key, nonce, i, b) == <<b, i, nonce, key>>

\* the XOR undone with the key stream of key and nonce at position i: the
\* plaintext byte under the key stream it was made with, another byte otherwise
CtrInverse(key, nonce, i, c) ==
    IF Len(c) = 4 /\ c[2] = i /\ c[3] = nonce /\ c[4] = key THEN c[1] ELSE "?"

\* GHASH: the tag of ciphertext ct under key and nonce, byte by byte; the
\* ciphertext is named by what it is the key stream XOR of
GcmTag(key, nonce, ct) ==
    LET h == [i \in 1..Len(ct) |-> CtrInverse(key, nonce, i, ct[i])]
    IN  [j \in 1..TagLen |-> <<"tag", j, h, nonce, key>>]

\* gcm.Seal(dst, nonce, plaintext, nil): dst, then the ciphertext, then the tag
GcmSeal(dst, key, nonce, plaintext) ==
    LET ct == [i \in 1..Len(plaintext) |-> CtrByte(key, nonce, i, plaintext[i])]
    IN  dst \o ct \o GcmTag(key, nonce, ct)

\* mutant: Open returns the bytes without comparing the tag
GcmOpen_NoVerify(key, nonce, ciphertext) ==
    IF Len(ciphertext) < TagLen
    THEN [err |-> ErrAuthFailed, out |-> <<>>]
    ELSE LET ct == SubSeq(ciphertext, 1, Len(ciphertext) - TagLen)
         IN  [err |-> Nil,
              out |-> [i \in 1..Len(ct) |-> CtrInverse(key, nonce, i, ct[i])]]

\* gcm.Open(nil, nonce, ciphertext, nil)
GcmOpen(key, nonce, ciphertext) ==
    IF Len(ciphertext) < TagLen
    THEN [err |-> ErrAuthFailed, out |-> <<>>]
    ELSE LET ct  == SubSeq(ciphertext, 1, Len(ciphertext) - TagLen)
             tag == SubSeq(ciphertext, Len(ciphertext) - TagLen + 1, Len(ciphertext))
         IN  IF tag # GcmTag(key, nonce, ct)
             THEN [err |-> ErrAuthFailed, out |-> <<>>]
             ELSE [err |-> Nil,
                   out |-> [i \in 1..Len(ct) |-> CtrInverse(key, nonce, i, ct[i])]]

\* mutant: Seal is called with a nil dst, so the blob does not start with the nonce
Encrypt_NoPrefix(data, key, nonce) ==
    IF ~NewCipherOk(key)
    THEN [err |-> ErrInvalidKeySize, out |-> <<>>]
    ELSE [err |-> Nil, out |-> GcmSeal(<<>>, key, NonceBytes(nonce), data)]

\* mutant: the nonce is left as make() returned it, all zero, at every call
Encrypt_ZeroNonce(data, key, nonce) ==
    IF ~NewCipherOk(key)
    THEN [err |-> ErrInvalidKeySize, out |-> <<>>]
    ELSE [err |-> Nil, out |-> GcmSeal(NonceBytes(0), key, NonceBytes(0), data)]

\* AESEncryption.Encrypt; nonce numbers the draw of rand.Read
Encrypt(data, key, nonce) ==
    IF ~NewCipherOk(key)
    THEN [err |-> ErrInvalidKeySize, out |-> <<>>]
    ELSE [err |-> Nil,
          out |-> GcmSeal(NonceBytes(nonce), key, NonceBytes(nonce), data)]

\* AESEncryption.Decrypt; a blob shorter than the nonce returns (nil, err)
\* with the err of cipher.NewGCM, which is nil at that point
Decrypt(data, key) ==
    IF ~NewCipherOk(key)
    THEN [err |-> ErrInvalidKeySize, out |-> <<>>]
    ELSE IF Len(data) < NonceLen
    THEN [err |-> Nil, out |-> <<>>]
    ELSE GcmOpen(key, SubSeq(data, 1, NonceLen),
                 SubSeq(data, NonceLen + 1, Len(data)))

\* ------------------------------------------------------------------ config
DefaultConfig ==
    [MasterHash |-> <<>>, Salt |-> <<>>, AutoLockTimeout |-> DefaultAutoLockTimeout,
     PasswordLength |-> DefaultPasswordLength,
     PasswordExpiration |-> DefaultPasswordExpiration]

IsInitialized == Len(config.MasterHash) > 0

ValidateMasterPassword(password) ==
    DeriveKey(password, config.Salt) = config.MasterHash

\* ----------------------------------------------------------------- history
Call(op, err, arg, cipher) ==
    [op |-> op, err |-> err, arg |-> arg, cipher |-> cipher,
     wasLocked |-> isLocked]

\* the cipher key after a call: the key handed to Encrypt/Decrypt, if any
KeyAfter(cipher) == IF cipher THEN config.MasterHash ELSE cipherKey

Min(a, b) == IF a < b THEN a ELSE b

Init ==
    /\ isLocked = TRUE
    /\ lastActivity = 0
    /\ config = DefaultConfig
    /\ file = DefaultConfig
    /\ entries = {}
    /\ now = 0
    /\ cipherKey = <<>>
    /\ initPass = ""
    /\ failedUnlocks = 0
    /\ last = [op |-> "New", err |-> Nil, arg |-> "", cipher |-> FALSE,
               wasLocked |-> TRUE]
    /\ followed = {}
    /\ fn = [op |-> "none"]

\* ----------------------------------------------------------------- session
\* mutant: Lock flips the flag instead of setting it
Lock_Toggle ==
    /\ isLocked' = ~isLocked
    /\ last' = Call("Lock", Nil, "", FALSE)
    /\ UNCHANGED <<lastActivity, config, file, entries, now, cipherKey,
                   initPass, failedUnlocks>>

Lock ==
    /\ isLocked' = TRUE
    /\ last' = Call("Lock", Nil, "", FALSE)
    /\ UNCHANGED <<lastActivity, config, file, entries, now, cipherKey,
                   initPass, failedUnlocks>>

\* mutant: the early return on a failed validation is missing
Unlock_NoReturn(masterPassword) ==
    /\ isLocked' = FALSE
    /\ lastActivity' = now
    /\ last' = Call("Unlock",
                    IF ValidateMasterPassword(masterPassword)
                    THEN Nil ELSE ErrInvalidMasterPassword,
                    masterPassword, FALSE)
    /\ failedUnlocks' = IF ValidateMasterPassword(masterPassword)
                        THEN failedUnlocks
                        ELSE Min(failedUnlocks + 1, MaxFailed)
    /\ UNCHANGED <<config, file, entries, now, cipherKey, initPass>>

\* mutant: Unlock keeps the key it derived as the session's key before it
\* has validated the passphrase
Unlock_CachesKey(masterPassword) ==
    /\ config' = [config EXCEPT
                    !.MasterHash = DeriveKey(masterPassword, config.Salt)]
    /\ IF ~ValidateMasterPassword(masterPassword)
       THEN /\ last' = Call("Unlock", ErrInvalidMasterPassword, masterPassword, FALSE)
            /\ failedUnlocks' = Min(failedUnlocks + 1, MaxFailed)
            /\ UNCHANGED <<isLocked, lastActivity, file, entries, now,
                           cipherKey, initPass>>
       ELSE /\ isLocked' = FALSE
            /\ lastActivity' = now
            /\ last' = Call("Unlock", Nil, masterPassword, FALSE)
            /\ UNCHANGED <<file, entries, now, cipherKey, initPass,
                           failedUnlocks>>

\* mutant: Unlock refuses every passphrase after MaxFailed failed attempts
Unlock_Lockout(masterPassword) ==
    IF failedUnlocks >= MaxFailed \/ ~ValidateMasterPassword(masterPassword)
    THEN /\ last' = Call("Unlock", ErrInvalidMasterPassword, masterPassword, FALSE)
         /\ failedUnlocks' = Min(failedUnlocks + 1, MaxFailed)
         /\ UNCHANGED <<isLocked, lastActivity, config, file, entries, now,
                        cipherKey, initPass>>
    ELSE /\ isLocked' = FALSE
         /\ lastActivity' = now
         /\ last' = Call("Unlock", Nil, masterPassword, FALSE)
         /\ UNCHANGED <<config, file, entries, now, cipherKey, initPass,
                        failedUnlocks>>

Unlock(masterPassword) ==
    IF ~ValidateMasterPassword(masterPassword)
    THEN /\ last' = Call("Unlock", ErrInvalidMasterPassword, masterPassword, FALSE)
         /\ failedUnlocks' = Min(failedUnlocks + 1, MaxFailed)
         /\ UNCHANGED <<isLocked, lastActivity, config, file, entries, now,
                        cipherKey, initPass>>
    ELSE /\ isLocked' = FALSE
         /\ lastActivity' = now
         /\ last' = Call("Unlock", Nil, masterPassword, FALSE)
         /\ UNCHANGED <<config, file, entries, now, cipherKey, initPass,
                        failedUnlocks>>

UpdateActivity ==
    /\ lastActivity' = now
    /\ last' = Call("UpdateActivity", Nil, "", FALSE)
    /\ UNCHANGED <<isLocked, config, file, entries, now, cipherKey,
                   initPass, failedUnlocks>>

\* mutant: the comparison with the timeout is strict
CheckAutoLock_Strict ==
    /\ isLocked' = IF /\ ~isLocked
                      /\ config.AutoLockTimeout > 0
                      /\ now - lastActivity > config.AutoLockTimeout
                   THEN TRUE
                   ELSE isLocked
    /\ last' = Call("CheckAutoLock", Nil, "", FALSE)
    /\ UNCHANGED <<lastActivity, config, file, entries, now, cipherKey,
                   initPass, failedUnlocks>>

CheckAutoLock ==
    /\ isLocked' = IF /\ ~isLocked
                      /\ config.AutoLockTimeout > 0
                      /\ now - lastActivity >= config.AutoLockTimeout
                   THEN TRUE
                   ELSE isLocked
    /\ last' = Call("CheckAutoLock", Nil, "", FALSE)
    /\ UNCHANGED <<lastActivity, config, file, entries, now, cipherKey,
                   initPass, failedUnlocks>>

\* mutant: EncryptPassword without the IsLocked check
EncryptPassword_NoCheck(password, nonce) ==
    LET r == Encrypt(password, config.MasterHash, nonce)
    IN  [err |-> r.err, out |-> r.out, cipher |-> TRUE]

\* the result of App.EncryptPassword: err, the blob, whether Encrypt was called
EncryptPassword(password, nonce) ==
    IF isLocked
    THEN [err |-> ErrLockedEncrypt, out |-> <<>>, cipher |-> FALSE]
    ELSE LET r == Encrypt(password, config.MasterHash, nonce)
         IN  [err |-> r.err, out |-> r.out, cipher |-> TRUE]

\* the result of App.DecryptMasterPassword
DecryptMasterPassword(encryptedPassword) ==
    IF isLocked
    THEN [err |-> ErrLockedDecrypt, out |-> <<>>, cipher |-> FALSE]
    ELSE LET r == Decrypt(encryptedPassword, config.MasterHash)
         IN  [err |-> r.err, out |-> r.out, cipher |-> TRUE]

\* a direct call of App.EncryptPassword
CallEncryptPassword(password, nonce) ==
    LET r == EncryptPassword(password, nonce)
    IN  /\ last' = Call("EncryptPassword", r.err, <<>>, r.cipher)
        /\ cipherKey' = KeyAfter(r.cipher)
        /\ UNCHANGED <<isLocked, lastActivity, config, file, entries, now,
                       initPass, failedUnlocks>>

\* a direct call of App.DecryptMasterPassword on a stored blob
CallDecryptMasterPassword(encryptedPassword) ==
    LET r == DecryptMasterPassword(encryptedPassword)
    IN  /\ last' = Call("DecryptMasterPassword", r.err, r.out, r.cipher)
        /\ cipherKey' = KeyAfter(r.cipher)
        /\ UNCHANGED <<isLocked, lastActivity, config, file, entries, now,
                       initPass, failedUnlocks>>

\* mutant: New takes the session state over from the process before
New_KeepsSession ==
    /\ config' = file
    /\ isLocked' = isLocked
    /\ lastActivity' = now
    /\ last' = Call("New", Nil, "", FALSE)
    /\ UNCHANGED <<file, entries, now, cipherKey, initPass, failedUnlocks>>

\* app.New in a new process: the configuration is read back from the file
New ==
    /\ config' = file
    /\ isLocked' = TRUE
    /\ lastActivity' = now
    /\ last' = Call("New", Nil, "", FALSE)
    /\ UNCHANGED <<file, entries, now, cipherKey, initPass, failedUnlocks>>

\* ---------------------------------------------------------------- commands
\* cmd.Name() of the commands NewRootCmd registers (get and set are also the
\* names of the two subcommands of config)
Commands ==
    {"init", "add", "get", "list", "update", "delete", "search", "generate",
     "audit", "lock", "unlock", "export", "stats", "import", "config", "set",
     "backup", "restore", "version"}

\* mutant: the test of the command name is inverted
PersistentPreRunE_Inverted(name) ==
    IF name # "init" THEN Nil
    ELSE IF ~IsInitialized THEN ErrNotInitialized
    ELSE Nil

\* the root command's PersistentPreRunE, which cobra runs before the RunE of
\* every command: the error it returns, Nil when the command may run
PersistentPreRunE(name) ==
    IF name = "init" THEN Nil
    ELSE IF ~IsInitialized THEN ErrNotInitialized
    ELSE Nil

\* getMasterPassword: the error of the two prompts, Nil when accepted
getMasterPassword(masterPass, confirmPass) ==
    IF masterPass # confirmPass THEN ErrPasswordsDoNotMatch
    ELSE IF Len(masterPass) < MinMasterPasswordLen THEN ErrMasterTooShort
    ELSE Nil

\* Config.SetMasterKey followed by Config.Save
SetMasterKey(masterKey, salt) ==
    /\ config' = [config EXCEPT !.MasterHash = masterKey, !.Salt = salt]
    /\ file' = config'

\* the command line of init, as recorded in the history
InitOp(force) == IF force THEN "init --force" ELSE "init"

\* mutant: init without the IsInitialized check
newInitCmd_NoCheck(force, masterPass, confirmPass) ==
    IF getMasterPassword(masterPass, confirmPass) # Nil
    THEN /\ last' = Call(InitOp(force), getMasterPassword(masterPass, confirmPass),
                         "", FALSE)
         /\ UNCHANGED <<isLocked, lastActivity, config, file, entries, now,
                        cipherKey, initPass, failedUnlocks>>
    ELSE /\ \E salt \in Salts : SetMasterKey(DeriveKey(masterPass, salt), salt)
         /\ initPass' = masterPass
         /\ failedUnlocks' = 0
         /\ last' = Call(InitOp(force), Nil, "", FALSE)
         /\ UNCHANGED <<isLocked, lastActivity, entries, now, cipherKey>>

\* pm init [--force]; generateSalt draws the salt once the password is accepted
newInitCmd(force, masterPass, confirmPass) ==
    IF IsInitialized /\ ~force
    THEN /\ last' = Call(InitOp(force), ErrAlreadyInitialized, "", FALSE)
         /\ UNCHANGED <<isLocked, lastActivity, config, file, entries, now,
                        cipherKey, initPass, failedUnlocks>>
    ELSE IF getMasterPassword(masterPass, confirmPass) # Nil
    THEN /\ last' = Call(InitOp(force), getMasterPassword(masterPass, confirmPass),
                         "", FALSE)
         /\ UNCHANGED <<isLocked, lastActivity, config, file, entries, now,
                        cipherKey, initPass, failedUnlocks>>
    ELSE /\ \E salt \in Salts : SetMasterKey(DeriveKey(masterPass, salt), salt)
         /\ initPass' = masterPass
         /\ failedUnlocks' = 0
         /\ last' = Call(InitOp(force), Nil, "", FALSE)
         /\ UNCHANGED <<isLocked, lastActivity, entries, now, cipherKey>>

\* a nil *Entry
NilEntry == [nil |-> TRUE]

ValidateEntry(entry) ==
    IF entry = NilEntry THEN ErrInvalidEntry
    ELSE IF entry.Name = "" THEN ErrEntryNameIsReq
    ELSE IF Len(entry.Password) = 0 THEN ErrEntryPasswordIsReq
    ELSE Nil

\* the rows WHERE name = ? selects
RowsNamed(name) == {e \in entries : e.Name = name}

\* mutant: the name column is not declared UNIQUE
AddEntry_NoUnique(entry) ==
    IF ValidateEntry(entry) # Nil
    THEN [err |-> ValidateEntry(entry), rows |-> entries]
    ELSE [err |-> Nil, rows |-> entries \cup {entry}]

\* Storage.AddEntry: the error and the rows afterwards; the INSERT fails on
\* the UNIQUE constraint of the name column
AddEntry(entry) ==
    IF ValidateEntry(entry) # Nil
    THEN [err |-> ValidateEntry(entry), rows |-> entries]
    ELSE IF RowsNamed(entry.Name) # {}
    THEN [err |-> ErrEntryExists, rows |-> entries]
    ELSE [err |-> Nil, rows |-> entries \cup {entry}]

\* Storage.GetEntry: the error and the row QueryRow scans
GetEntry(name) ==
    IF RowsNamed(name) = {}
    THEN [err |-> ErrEntryNotFound, entry |-> NilEntry]
    ELSE [err |-> Nil, entry |-> CHOOSE e \in RowsNamed(name) : TRUE]

\* the columns UPDATE sets from the entry, besides updated_at = time.Now(); a
\* row has the columns the entries of the specification are given
UpdatedColumns == {"Username", "Password", "URL", "Notes", "Tags"}

\* Storage.UpdateEntry: the error and the rows afterwards
UpdateEntry(entry) ==
    IF ValidateEntry(entry) # Nil
    THEN [err |-> ValidateEntry(entry), rows |-> entries]
    ELSE IF RowsNamed(entry.Name) = {}
    THEN [err |-> ErrEntryNotFound, rows |-> entries]
    ELSE [err |-> Nil,
          rows |-> (entries \ RowsNamed(entry.Name))
                      \cup {[c \in DOMAIN e |->
                                IF c \in UpdatedColumns THEN entry[c]
                                ELSE IF c = "UpdatedAt" THEN now
                                ELSE e[c]] :
                               e \in RowsNamed(entry.Name)}]

\* Storage.DeleteEntry: the error and the rows afterwards
DeleteEntry(name) ==
    IF RowsNamed(name) = {}
    THEN [err |-> ErrEntryNotFound, rows |-> entries]
    ELSE [err |-> Nil, rows |-> entries \ RowsNamed(name)]

\* pm add <name> --password <password>
newAddCmd(name, password, nonce) ==
    IF PersistentPreRunE("add") # Nil
    THEN /\ last' = Call("add", PersistentPreRunE("add"), "", FALSE)
         /\ UNCHANGED <<isLocked, lastActivity, config, file, entries, now,
                        cipherKey, initPass, failedUnlocks>>
    ELSE IF isLocked
    THEN /\ last' = Call("add", ErrLockedCmd, "", FALSE)
         /\ UNCHANGED <<isLocked, lastActivity, config, file, entries, now,
                        cipherKey, initPass, failedUnlocks>>
    ELSE LET enc == EncryptPassword(password, nonce)
             res == AddEntry([Name |-> name, Password |-> enc.out])
         IN  /\ cipherKey' = KeyAfter(enc.cipher)
             /\ IF enc.err # Nil
                THEN /\ last' = Call("add", enc.err, "", enc.cipher)
                     /\ UNCHANGED entries
                ELSE /\ last' = Call("add", res.err, "", enc.cipher)
                     /\ entries' = res.rows
             /\ UNCHANGED <<isLocked, lastActivity, config, file, now,
                            initPass, failedUnlocks>>

\* pm config set auto_lock_timeout <value>
newConfigSetCmd(value) ==
    IF PersistentPreRunE("set") # Nil
    THEN /\ last' = Call("config set", PersistentPreRunE("set"), "", FALSE)
         /\ UNCHANGED <<isLocked, lastActivity, config, file, entries, now,
                        cipherKey, initPass, failedUnlocks>>
    ELSE IF value < 0
    THEN /\ last' = Call("config set", ErrNegativeTimeout, "", FALSE)
         /\ UNCHANGED <<isLocked, lastActivity, config, file, entries, now,
                        cipherKey, initPass, failedUnlocks>>
    ELSE /\ config' = [config EXCEPT !.AutoLockTimeout = value]
         /\ file' = config'
         /\ last' = Call("config set", Nil, "", FALSE)
         /\ UNCHANGED <<isLocked, lastActivity, entries, now, cipherKey,
                        initPass, failedUnlocks>>

\* one second passes
Tick ==
    /\ now < MaxTime
    /\ now' = now + 1
    /\ last' = Call("Tick", Nil, "", FALSE)
    /\ UNCHANGED <<isLocked, lastActivity, config, file, entries, cipherKey,
                   initPass, failedUnlocks>>

Next ==
    \/ Lock /\ UNCHANGED aux
    \/ \E p \in Passphrases : Unlock(p) /\ UNCHANGED aux
    \/ UpdateActivity /\ UNCHANGED aux
    \/ CheckAutoLock /\ UNCHANGED aux
    \/ \E pw \in Plaintexts, n \in Nonces :
          CallEncryptPassword(pw, n) /\ UNCHANGED aux
    \/ \E e \in entries : CallDecryptMasterPassword(e.Password) /\ UNCHANGED aux
    \/ New /\ UNCHANGED aux
    \/ \E f \in BOOLEAN, p \in Passphrases, c \in Passphrases :
          newInitCmd(f, p, c) /\ UNCHANGED aux
    \/ \E nm \in Names, pw \in Plaintexts, n \in Nonces :
          newAddCmd(nm, pw, n) /\ UNCHANGED aux
    \/ \E v \in Timeouts : newConfigSetCmd(v) /\ UNCHANGED aux
    \/ Tick /\ UNCHANGED aux

Spec == Init /\ [][Next]_vars

\* ============================================= the cipher, called directly
\* the keys handed to Encrypt and Decrypt: derived keys, and the empty key
CipherKeys == {DeriveKey(p, <<1>>) : p \in Passphrases} \cup {<<>>}

\* a call of Encrypt; prev is the Encrypt call before it, if that was the
\* previous call
CallEncrypt(data, key, nonce) ==
    LET r == Encrypt(data, key, nonce)
    IN  /\ fn' = [op |-> "Encrypt", data |-> data, key |-> key, nonce |-> nonce,
                  err |-> r.err, out |-> r.out,
                  prev |-> IF fn.op = "Encrypt"
                           THEN <<[data |-> fn.data, key |-> fn.key,
                                   nonce |-> fn.nonce, err |-> fn.err,
                                   out |-> fn.out]>>
                           ELSE <<>>]
        /\ UNCHANGED <<app, followed>>

\* a call of Decrypt on the first cut bytes of the blob the previous call,
\* an Encrypt, returned; of is that Encrypt call
CallDecrypt(key, cut) ==
    /\ fn.op = "Encrypt"
    /\ fn.err = Nil
    /\ cut \in 0..Len(fn.out)
    /\ LET data == SubSeq(fn.out, 1, cut)
           r == Decrypt(data, key)
       IN  fn' = [op |-> "Decrypt", data |-> data, key |-> key,
                  err |-> r.err, out |-> r.out,
                  of |-> [data |-> fn.data, key |-> fn.key,
                          nonce |-> fn.nonce, out |-> fn.out]]
    /\ UNCHANGED <<app, followed>>

NextCipher ==
    \/ \E d \in CipherPlaintexts, k \in CipherKeys, n \in Nonces :
          CallEncrypt(d, k, n)
    \/ \E k \in CipherKeys, cut \in 0..(NonceLen + MaxPlainLen + TagLen) :
          CallDecrypt(k, cut)

SpecCipher == Init /\ [][NextCipher]_vars

\* ================================== a vault in use, never initialized again
\* the secrets EncryptPassword is given
Secrets == {<<"p", "w">>, <<"x">>}

\* after `init` with the first passphrase, and `config set auto_lock_timeout`
\* or not: the session is Locked
InitVault ==
    /\ isLocked = TRUE
    /\ lastActivity = 0
    /\ \E t \in {DefaultAutoLockTimeout} \cup {v \in Timeouts : v >= 0} :
          config = [DefaultConfig EXCEPT
                       !.MasterHash = DeriveKey("CorrectHorse1!", <<1>>),
                       !.Salt = <<1>>, !.AutoLockTimeout = t]
    /\ file = config
    /\ entries = {}
    /\ now = 0
    /\ cipherKey = <<>>
    /\ initPass = "CorrectHorse1!"
    /\ failedUnlocks = 0
    /\ last = [op |-> "New", err |-> Nil, arg |-> "", cipher |-> FALSE,
               wasLocked |-> TRUE]
    /\ followed = {}
    /\ fn = [op |-> "none"]

\* the followed blob has seen the session go from Unlocked to Locked
Relocked == {[m EXCEPT !.relocked = m.relocked \/ (~isLocked /\ isLocked')] :
                m \in followed}

\* App.EncryptPassword; the blob it returns is followed from here on, or the
\* blob followed so far still is
FollowEncryptPassword(password, nonce, follow) ==
    /\ CallEncryptPassword(password, nonce)
    /\ followed' = IF follow /\ EncryptPassword(password, nonce).err = Nil
                   THEN {[blob |-> EncryptPassword(password, nonce).out,
                          s |-> password, relocked |-> FALSE]}
                   ELSE followed
    /\ UNCHANGED fn

NextRelock ==
    \/ Lock /\ followed' = Relocked /\ UNCHANGED fn
    \/ CheckAutoLock /\ followed' = Relocked /\ UNCHANGED fn
    \/ New /\ followed' = Relocked /\ UNCHANGED fn
    \/ UpdateActivity /\ UNCHANGED aux
    \/ \E p \in Passphrases : Unlock(p) /\ UNCHANGED aux
    \/ \E pw \in Secrets, n \in Nonces, follow \in BOOLEAN :
          FollowEncryptPassword(pw, n, follow)
    \/ \E m \in followed : CallDecryptMasterPassword(m.blob) /\ UNCHANGED aux
    \/ Tick /\ UNCHANGED aux

SpecRelock == InitVault /\ [][NextRelock]_vars

\* ========================================= the entry store, called directly
\* the names and the password bytes of the entries handed to the store
StoreNames == {"", "github", "mail"}
StoreBlobs == {<<>>, <<"b1">>, <<"b2">>}
StoreEntries ==
    {[Name |-> n, Password |-> b] : n \in StoreNames, b \in StoreBlobs}
        \cup {NilEntry}

\* the record of a call of the store: its argument (a name, or the entry and
\* its name), its error, and the rows before the call
StoreCall(op, name, entry, err) ==
    [op |-> op, name |-> name, entry |-> entry, err |-> err,
     existed |-> RowsNamed(name) # {}, before |-> entries]

NameOf(entry) == IF entry = NilEntry THEN "" ELSE entry.Name

CallAddEntry(entry) ==
    /\ entries' = AddEntry(entry).rows
    /\ fn' = StoreCall("AddEntry", NameOf(entry), entry, AddEntry(entry).err)
    /\ UNCHANGED <<isLocked, lastActivity, config, file, now, cipherKey,
                   initPass, failedUnlocks, last, followed>>

CallGetEntry(name) ==
    /\ fn' = StoreCall("GetEntry", name, GetEntry(name).entry, GetEntry(name).err)
    /\ UNCHANGED <<app, followed>>

CallUpdateEntry(entry) ==
    /\ entries' = UpdateEntry(entry).rows
    /\ fn' = StoreCall("UpdateEntry", NameOf(entry), entry, UpdateEntry(entry).err)
    /\ UNCHANGED <<isLocked, lastActivity, config, file, now, cipherKey,
                   initPass, failedUnlocks, last, followed>>

CallDeleteEntry(name) ==
    /\ entries' = DeleteEntry(name).rows
    /\ fn' = StoreCall("DeleteEntry", name, NilEntry, DeleteEntry(name).err)
    /\ UNCHANGED <<isLocked, lastActivity, config, file, now, cipherKey,
                   initPass, failedUnlocks, last, followed>>

NextStore ==
    \/ \E e \in StoreEntries : CallAddEntry(e)
    \/ \E n \in StoreNames : CallGetEntry(n)
    \/ \E e \in StoreEntries : CallUpdateEntry(e)
    \/ \E n \in StoreNames : CallDeleteEntry(n)

SpecStore == Init /\ [][NextStore]_vars

\* ====================================================== password health
UppercaseLetters ==
    {"A", "B", "C", "D", "E", "F", "G", "H", "I", "J", "K", "L", "M", "N",
     "O", "P", "Q", "R", "S", "T", "U", "V", "W", "X", "Y", "Z"}
LowercaseLetters ==
    {"a", "b", "c", "d", "e", "f", "g", "h", "i", "j", "k", "l", "m", "n",
     "o", "p", "q", "r", "s", "t", "u", "v", "w", "x", "y", "z"}
Digits ==
    {"0", "1", "2", "3", "4", "5", "6", "7", "8", "9"}
SpecialChars ==
    {"!", "@", "#", "$", "%", "^", "&", "*", "(", ")", "_", "+", "-", "=",
     "[", "]", "{", "}", "|", ";", ":", ",", ".", "<", ">", "?"}

\* some rune of s is in the set
ContainsAny(s, set) == \E i \in 1..Len(s) : s[i] \in set

containsUppercase(s) == ContainsAny(s, UppercaseLetters)
containsLowercase(s) == ContainsAny(s, LowercaseLetters)
containsNumbers(s) == ContainsAny(s, Digits)
containsSpecialChars(s) == ContainsAny(s, SpecialChars)

isCommonPassword(password) ==
    password \in {<<"p", "a", "s", "s", "w", "o", "r", "d">>,
                  <<"1", "2", "3", "4", "5", "6">>,
                  <<"q", "w", "e", "r", "t", "y">>}

\* App.CheckPasswordHealth
CheckPasswordHealth(password) ==
    [length       |-> Len(password) >= config.PasswordLength,
     uppercase    |-> containsUppercase(password),
     lowercase    |-> containsLowercase(password),
     numbers      |-> containsNumbers(password),
     specialChars |-> containsSpecialChars(password),
     notCommon    |-> ~isCommonPassword(password)]

Str0ngPass == <<"S", "t", "r", "0", "n", "g", "!", "P", "a", "s", "s">>
Abc == <<"a", "b", "c">>

\* the passwords CheckPasswordHealth is given
HealthChars == {"a", "Z", "5", "#", " "}
HealthPasswords ==
    {Str0ngPass, Abc,
     <<"p", "a", "s", "s", "w", "o", "r", "d">>,
     <<"q", "w", "e", "r", "t", "y">>,
     <<"C", "o", "r", "r", "e", "c", "t", "H", "o", "r", "s", "e", "1", "!", "x", "y">>}
        \cup SeqsUpTo(HealthChars, MaxHealthLen)

\* the values `config set password_length` is called with
PasswordLengths == {7, 8, 11, 12}

\* a call of App.CheckPasswordHealth; threshold is Config.PasswordLength
CallCheckPasswordHealth(password) ==
    /\ fn' = [op |-> "CheckPasswordHealth", password |-> password,
              threshold |-> config.PasswordLength,
              out |-> CheckPasswordHealth(password)]
    /\ UNCHANGED <<app, followed>>

\* pm config set password_length <value>
newConfigSetPasswordLength(value) ==
    IF PersistentPreRunE("set") # Nil
    THEN /\ last' = Call("config set", PersistentPreRunE("set"), "", FALSE)
         /\ UNCHANGED <<isLocked, lastActivity, config, file, entries, now,
                        cipherKey, initPass, failedUnlocks>>
    ELSE IF value < MinPasswordLength
    THEN /\ last' = Call("config set", ErrPasswordLengthTooSmall, "", FALSE)
         /\ UNCHANGED <<isLocked, lastActivity, config, file, entries, now,
                        cipherKey, initPass, failedUnlocks>>
    ELSE /\ config' = [config EXCEPT !.PasswordLength = value]
         /\ file' = config'
         /\ last' = Call("config set", Nil, "", FALSE)
         /\ UNCHANGED <<isLocked, lastActivity, entries, now, cipherKey,
                        initPass, failedUnlocks>>

NextHealth ==
    \/ \E pw \in HealthPasswords : CallCheckPasswordHealth(pw)
    \/ \E v \in PasswordLengths : newConfigSetPasswordLength(v) /\ UNCHANGED aux

SpecHealth == InitVault /\ [][NextHealth]_vars

\* ==================================================== password generation
\* the flags of generate: which classes to draw from
GenFlags ==
    [special : BOOLEAN, numbers : BOOLEAN, uppercase : BOOLEAN,
     lowercase : BOOLEAN, noAmbiguous : BOOLEAN]

\* the characters of the string chars that generatePasswordWithOptions builds
GenChars(f) ==
    (IF f.uppercase
     THEN IF f.noAmbiguous THEN UppercaseLetters \ {"I", "O"} ELSE UppercaseLetters
     ELSE {})
    \cup (IF f.lowercase
          THEN IF f.noAmbiguous THEN LowercaseLetters \ {"l", "o"} ELSE LowercaseLetters
          ELSE {})
    \cup (IF f.numbers
          THEN IF f.noAmbiguous THEN Digits \ {"0", "1"} ELSE Digits
          ELSE {})
    \cup (IF f.special THEN SpecialChars ELSE {})

\* mutant: every password is accepted
validatePassword_Any(password, f) == TRUE

validatePassword(password, f) ==
    LET hasSpecial == ~f.special \/ ContainsAny(password, SpecialChars)
        hasNumber  == ~f.numbers \/ ContainsAny(password, Digits)
        hasUpper   == ~f.uppercase \/ ContainsAny(password, UppercaseLetters)
        hasLower   == ~f.lowercase \/ ContainsAny(password, LowercaseLetters)
    IN  hasSpecial /\ hasNumber /\ hasUpper /\ hasLower

\* rand.Int may return every index of chars; the draws followed are those
\* that land on these characters: two of each class, one of them ambiguous
\* where the class has ambiguous characters
DrawnChars == {"A", "O", "a", "l", "2", "0", "!", "|"}

\* the passwords one run of the drawing loop can build
Drawn(length, f) == [1..length -> GenChars(f) \cap DrawnChars]

\* the lengths and flags generate is called with
GenLengths == 0..MaxGenLen

\* pm generate --length <length> with the flags f, for one password: the
\* command rejects a length below 1, enables every class when none is set,
\* and calls generatePasswordWithOptions (whose chars is then never empty)
newGenerateCmd(length, f) ==
    /\ ~(fn.op = "generate" /\ fn.pc = "running")
    /\ fn' = IF length < 1
             THEN [op |-> "generate", pc |-> "failed", length |-> length,
                   flags |-> f, depth |-> 0, err |-> ErrLengthNotPositive,
                   result |-> <<>>]
             ELSE [op |-> "generate", pc |-> "running", length |-> length,
                   flags |-> IF ~f.special /\ ~f.numbers /\ ~f.uppercase
                                   /\ ~f.lowercase
                             THEN [f EXCEPT !.special = TRUE, !.numbers = TRUE,
                                            !.uppercase = TRUE, !.lowercase = TRUE]
                             ELSE f,
                   depth |-> 0, err |-> Nil, result |-> <<>>]
    /\ UNCHANGED <<app, followed>>

\* one call of generatePasswordWithOptions draws the password result and
\* returns it when validatePassword accepts it
generatePasswordWithOptions_Return ==
    /\ fn.op = "generate" /\ fn.pc = "running"
    /\ \E result \in Drawn(fn.length, fn.flags) :
          /\ validatePassword(result, fn.flags)
          /\ fn' = [fn EXCEPT !.pc = "returned", !.result = result]
    /\ UNCHANGED <<app, followed>>

\* ... and calls itself again when validatePassword rejects it: the draw is
\* dropped and the stack is one call deeper (counted up to MaxDepth, from
\* where on a further call leaves the recorded state as it is)
generatePasswordWithOptions_Recurse ==
    /\ fn.op = "generate" /\ fn.pc = "running"
    /\ \E result \in Drawn(fn.length, fn.flags) :
          /\ ~validatePassword(result, fn.flags)
          /\ fn' = [fn EXCEPT !.depth = Min(fn.depth + 1, MaxDepth)]
    /\ UNCHANGED <<app, followed>>

NextGen ==
    \/ \E length \in GenLengths, f \in GenFlags : newGenerateCmd(length, f)
    \/ generatePasswordWithOptions_Return
    \/ generatePasswordWithOptions_Recurse

SpecGen == Init /\ [][NextGen]_vars

\* the process keeps running, and the draws are random: a call whose draws
\* can pass validatePassword is not rejected for ever
SpecGenFair ==
    /\ SpecGen
    /\ WF_vars(generatePasswordWithOptions_Recurse)
    /\ WF_vars(generatePasswordWithOptions_Return)

\* ================================================================ pm import
\* the most entries an import file holds
MaxImport == 2

ErrImportFileNotFound == "import file not found"
ErrUnsupportedFormat == "unsupported format"
ErrImportFailed == "failed to import data"
ErrImportEntryExists == "entry already exists"
ErrNilPointer == "panic: nil pointer dereference"

\* the entries of an import file: JSON's null decodes to a nil *ExportEntry
ImportItems ==
    {[Name |-> "github", Password |-> <<"p", "w">>],
     [Name |-> "mail", Password |-> <<>>],
     NilEntry}

\* what the file named on the command line holds: nothing (it does not
\* exist), something the decoder refuses, or export data
ImportFiles ==
    {[exists |-> x, parses |-> FALSE, Encrypted |-> FALSE, Entries |-> <<>>] :
        x \in BOOLEAN}
    \cup {[exists |-> TRUE, parses |-> TRUE, Encrypted |-> e, Entries |-> s] :
             e \in BOOLEAN, s \in SeqsUpTo(ImportItems, MaxImport)}

Formats == {"json", "csv", "xml"}

NotNil(e) == e # NilEntry

\* importJSON and importCSV: the error and the *ExportData; importCSV keeps
\* the lines of 8 fields and never says the passwords are encrypted
importFile(format, f) ==
    IF ~f.parses
    THEN [err |-> ErrImportFailed, Encrypted |-> FALSE, Entries |-> <<>>]
    ELSE IF format = "json"
    THEN [err |-> Nil, Encrypted |-> f.Encrypted, Entries |-> f.Entries]
    ELSE [err |-> Nil, Encrypted |-> FALSE,
          Entries |-> SelectSeq(f.Entries, NotNil)]

\* mutant: the entry is added whether or not this is a dry run
importEntry_AlwaysAdd(st, item, encrypted, nonce, dryRun, skipDups) ==
    IF st.err # Nil THEN st
    ELSE IF item = NilEntry THEN [st EXCEPT !.err = ErrNilPointer]
    ELSE LET existing == {e \in st.rows : e.Name = item.Name}
             enc == EncryptPassword(item.Password, nonce)
             entry == [Name |-> item.Name,
                       Password |-> IF encrypted THEN item.Password
                                    ELSE enc.out]
         IN  IF existing # {}
             THEN IF skipDups THEN [st EXCEPT !.skipped = @ + 1]
                  ELSE [st EXCEPT !.err = ErrImportEntryExists]
             ELSE IF ~encrypted /\ enc.err # Nil
             THEN [st EXCEPT !.err = enc.err, !.cipher = @ \/ enc.cipher]
             ELSE IF ValidateEntry(entry) # Nil
             THEN [st EXCEPT !.err = ValidateEntry(entry),
                             !.cipher = @ \/ ~encrypted]
             ELSE [st EXCEPT !.rows = @ \cup {entry}, !.imported = @ + 1,
                             !.cipher = @ \/ ~encrypted]

\* one round of the loop over importedData.Entries: st holds the error the
\* loop has returned with, the rows of the table, the two counters and
\* whether Encrypt was called. GetEntry has just said the name is absent
\* when AddEntry is called, so AddEntry fails on ValidateEntry only.
importEntry(st, item, encrypted, nonce, dryRun, skipDups) ==
    IF st.err # Nil THEN st
    ELSE IF item = NilEntry THEN [st EXCEPT !.err = ErrNilPointer]
    ELSE LET existing == {e \in st.rows : e.Name = item.Name}
             enc == EncryptPassword(item.Password, nonce)
             entry == [Name |-> item.Name,
                       Password |-> IF encrypted THEN item.Password
                                    ELSE enc.out]
         IN  IF existing # {}
             THEN IF skipDups THEN [st EXCEPT !.skipped = @ + 1]
                  ELSE [st EXCEPT !.err = ErrImportEntryExists]
             ELSE IF ~encrypted /\ enc.err # Nil
             THEN [st EXCEPT !.err = enc.err, !.cipher = @ \/ enc.cipher]
             ELSE IF dryRun
             THEN [st EXCEPT !.imported = @ + 1, !.cipher = @ \/ ~encrypted]
             ELSE IF ValidateEntry(entry) # Nil
             THEN [st EXCEPT !.err = ValidateEntry(entry),
                             !.cipher = @ \/ ~encrypted]
             ELSE [st EXCEPT !.rows = @ \cup {entry}, !.imported = @ + 1,
                             !.cipher = @ \/ ~encrypted]

\* for _, importEntry := range importedData.Entries
RECURSIVE importEntries(_, _, _, _, _, _)
importEntries(st, items, encrypted, nonce, dryRun, skipDups) ==
    IF items = <<>> THEN st
    ELSE importEntries(importEntry(st, Head(items), encrypted, nonce,
                                   dryRun, skipDups),
                       Tail(items), encrypted, nonce, dryRun, skipDups)

\* the command line of import, as recorded in the history
ImportOp(dryRun) == IF dryRun THEN "import --dry-run" ELSE "import"

\* the result of the loop of newImportCmd over the data read from f
importLoop(f, format, nonce, dryRun, skipDups) ==
    LET data == importFile(format, f)
    IN  importEntries([err |-> Nil, rows |-> entries, imported |-> 0,
                       skipped |-> 0, cipher |-> FALSE],
                      data.Entries, data.Encrypted, nonce, dryRun, skipDups)

\* pm import <file> --format <format> [--dry-run] [--skip-duplicates]; the
\* history keeps the number of entries the summary reports as imported. The
\* random source is read only when the passwords of f are not encrypted.
newImportCmd(f, format, dryRun, skipDups) ==
    LET data == importFile(format, f)
        fails(err) ==
            /\ last' = Call(ImportOp(dryRun), err, 0, FALSE)
            /\ UNCHANGED <<isLocked, lastActivity, config, file, entries, now,
                           cipherKey, initPass, failedUnlocks>>
    IN  IF PersistentPreRunE("import") # Nil
        THEN fails(PersistentPreRunE("import"))
        ELSE IF isLocked THEN fails(ErrLockedCmd)
        ELSE IF ~f.exists THEN fails(ErrImportFileNotFound)
        ELSE IF format \notin {"json", "csv"} THEN fails(ErrUnsupportedFormat)
        ELSE IF data.err # Nil THEN fails(data.err)
        ELSE \E nonce \in IF data.Encrypted THEN {1} ELSE Nonces :
               \E st \in {importLoop(f, format, nonce, dryRun, skipDups)} :
                   /\ entries' = st.rows
                   /\ cipherKey' = KeyAfter(st.cipher)
                   /\ last' = Call(ImportOp(dryRun), st.err, st.imported,
                                   st.cipher)
                   /\ UNCHANGED <<isLocked, lastActivity, config, file, now,
                                  initPass, failedUnlocks>>

NextImport ==
    \/ Lock /\ UNCHANGED aux
    \/ \E p \in Passphrases : Unlock(p) /\ UNCHANGED aux
    \/ New /\ UNCHANGED aux
    \/ \E nm \in Names, pw \in Plaintexts, n \in Nonces :
          newAddCmd(nm, pw, n) /\ UNCHANGED aux
    \/ \E f \in ImportFiles, format \in Formats,
          dryRun \in BOOLEAN, skipDups \in BOOLEAN :
          newImportCmd(f, format, dryRun, skipDups) /\ UNCHANGED aux

\* the vault is initialized and its configuration is the default one
InitImport == InitVault /\ config.AutoLockTimeout = DefaultAutoLockTimeout

SpecImport == InitImport /\ [][NextImport]_vars

\* ================================================================ pm export
\* Text is a sequence of elements <<"c", x>>, where x is "," or "\"" or "\n"
\* or a word free of the three, and <<"b", x>>, a byte x of a blob, which is
\* taken to be none of the three.
ErrEmptyCSV == "empty CSV file"

CsvSpecial == {",", "\"", "\n"}

Ch(x) == <<"c", x>>
\* the element c of a text is the character ch
Is(c, ch) == c[1] = "c" /\ c[2] = ch

\* string(b) of a []byte b, blob or not, and []byte(t) of a text t
BytesText(b, blob) == [i \in 1..Len(b) |-> IF blob THEN <<"b", b[i]>> ELSE Ch(b[i])]
TextBytes(t) == [i \in 1..Len(t) |-> t[i][2]]

RECURSIVE Flatten(_)
Flatten(ss) == IF ss = <<>> THEN <<>> ELSE Head(ss) \o Flatten(Tail(ss))

\* escapeCSV: a field with one of the three characters is put in quotes,
\* its quotes doubled
escapeCSV(s) ==
    IF \E i \in 1..Len(s) : \E ch \in CsvSpecial : Is(s[i], ch)
    THEN <<Ch("\"")>>
            \o Flatten([i \in 1..Len(s) |->
                          IF Is(s[i], "\"") THEN <<Ch("\""), Ch("\"")>>
                          ELSE <<s[i]>>])
            \o <<Ch("\"")>>
    ELSE s

\* a name as text, and back; text that is not one word is a name other than
\* the ones entries are given
NameText(name) == IF name = "" THEN <<>> ELSE <<Ch(name)>>
TextName(t) ==
    IF t = <<>> THEN ""
    ELSE IF Len(t) = 1 /\ t[1][1] = "c" /\ t[1][2] \notin CsvSpecial THEN t[1][2]
    ELSE "(other)"

\* the line exportCSV writes for an entry: of the eight fields the model
\* keeps Name and Password, the others are empty, the two times are "t"
csvLine(entry, blob) ==
    escapeCSV(NameText(entry.Name)) \o <<Ch(","), Ch(",")>>
        \o escapeCSV(BytesText(entry.Password, blob))
        \o <<Ch(","), Ch(","), Ch(","), Ch(","), Ch("t"), Ch(","), Ch("t"),
             Ch("\n")>>

CsvHeader ==
    <<Ch("Name"), Ch(","), Ch("Username"), Ch(","), Ch("Password"), Ch(","),
      Ch("URL"), Ch(","), Ch("Notes"), Ch(","), Ch("Tags"), Ch(","),
      Ch("Created"), Ch(","), Ch("Updated"), Ch("\n")>>

\* exportCSV: the text of the file
exportCSV(data) ==
    CsvHeader \o Flatten([i \in 1..Len(data.Entries) |->
                            csvLine(data.Entries[i], data.Encrypted)])

\* bufio.Scanner with ScanLines: the text between the newlines, and the rest
\* after the last one when it is not empty
RECURSIVE ScanLines(_, _)
ScanLines(text, line) ==
    IF text = <<>> THEN (IF line = <<>> THEN <<>> ELSE <<line>>)
    ELSE IF Is(Head(text), "\n") THEN <<line>> \o ScanLines(Tail(text), <<>>)
    ELSE ScanLines(Tail(text), Append(line, Head(text)))

\* parseCSVLine from character i on: field is the strings.Builder
RECURSIVE parseCSVFrom(_, _, _, _, _)
parseCSVFrom(line, i, field, fields, inQuotes) ==
    IF i > Len(line) THEN Append(fields, field)
    ELSE IF Is(line[i], "\"")
    THEN IF inQuotes /\ i + 1 <= Len(line) /\ Is(line[i + 1], "\"")
         THEN parseCSVFrom(line, i + 2, Append(field, Ch("\"")), fields, inQuotes)
         ELSE parseCSVFrom(line, i + 1, field, fields, ~inQuotes)
    ELSE IF Is(line[i], ",") /\ ~inQuotes
    THEN parseCSVFrom(line, i + 1, <<>>, Append(fields, field), inQuotes)
    ELSE parseCSVFrom(line, i + 1, Append(field, line[i]), fields, inQuotes)

parseCSVLine(line) == parseCSVFrom(line, 1, <<>>, <<>>, FALSE)

\* the lines of at least 8 fields, as entries
RECURSIVE csvEntries(_)
csvEntries(lines) ==
    IF lines = <<>> THEN <<>>
    ELSE LET fields == parseCSVLine(Head(lines))
         IN  IF Len(fields) < 8 THEN csvEntries(Tail(lines))
             ELSE <<[Name |-> TextName(fields[1]),
                     Password |-> TextBytes(fields[3])]>>
                     \o csvEntries(Tail(lines))

\* importCSV: the first line is the header; Encrypted is false whatever
\* was exported
importCSV(text) ==
    IF ScanLines(text, <<>>) = <<>>
    THEN [err |-> ErrEmptyCSV, Encrypted |-> FALSE, Entries |-> <<>>]
    ELSE [err |-> Nil, Encrypted |-> FALSE,
          Entries |-> csvEntries(Tail(ScanLines(text, <<>>)))]

\* encoding/json writes a []byte as base64 text and a string as itself
exportJSON(data) ==
    [encrypted |-> data.Encrypted,
     entries |-> [i \in 1..Len(data.Entries) |->
                    [name |-> data.Entries[i].Name,
                     password |-> <<"base64", data.Entries[i].Password>>]]]

importJSON(text) ==
    [err |-> Nil, Encrypted |-> text.encrypted,
     Entries |-> [i \in 1..Len(text.entries) |->
                    [Name |-> text.entries[i].name,
                     Password |-> text.entries[i].password[2]]]]

\* the file exportJSON or exportCSV leaves, given as what the decoder of its
\* format reads from it
writtenFile(format, data) ==
    LET r == IF format = "csv" THEN importCSV(exportCSV(data))
             ELSE importJSON(exportJSON(data))
    IN  [exists |-> TRUE, parses |-> r.err = Nil, Encrypted |-> r.Encrypted,
         Entries |-> r.Entries]

\* the names in the order of ORDER BY name
ExportNames == <<"github", "mail">>
\* the secrets of the entries to export
ExportSecrets == {<<"p", "w">>, <<"p", ",", "\"">>, <<"p", "\n", "w">>}

\* Storage.ListEntries: the rows, ordered by name
RECURSIVE ListEntriesFrom(_)
ListEntriesFrom(i) ==
    IF i > Len(ExportNames) THEN <<>>
    ELSE (IF RowsNamed(ExportNames[i]) = {} THEN <<>>
          ELSE <<CHOOSE e \in RowsNamed(ExportNames[i]) : TRUE>>)
            \o ListEntriesFrom(i + 1)

ListEntries == ListEntriesFrom(1)

\* App.DecryptPassword, which the commands call on entry.Password
DecryptPassword(encryptedPassword) == DecryptMasterPassword(encryptedPassword)

\* the ExportData newExportCmd prepares: the error of the first password
\* that does not decrypt, and the entries
exportData(decrypt) ==
    LET dec == [i \in 1..Len(ListEntries) |->
                  DecryptPassword(ListEntries[i].Password)]
    IN  [err |-> IF decrypt /\ \E i \in 1..Len(dec) : dec[i].err # Nil
                 THEN dec[CHOOSE i \in 1..Len(dec) :
                            /\ dec[i].err # Nil
                            /\ \A j \in 1..(i - 1) : dec[j].err = Nil].err
                 ELSE Nil,
         Encrypted |-> ~decrypt,
         Entries |-> [i \in 1..Len(ListEntries) |->
                        [Name |-> ListEntries[i].Name,
                         Password |-> IF decrypt THEN dec[i].out
                                      ELSE ListEntries[i].Password]]]

\* pm export --format <format> [--decrypt]: fn keeps the file written and
\* the rows it was written from
newExportCmd(format, decrypt) ==
    LET data == exportData(decrypt)
        err == IF PersistentPreRunE("export") # Nil
               THEN PersistentPreRunE("export")
               ELSE IF isLocked THEN ErrLockedCmd
               ELSE IF data.err # Nil THEN data.err
               ELSE IF format \notin {"json", "csv"} THEN ErrUnsupportedFormat
               ELSE Nil
        ciphered == ~isLocked /\ decrypt /\ entries # {}
    IN  /\ last' = Call("export", err, "", ciphered)
        /\ cipherKey' = KeyAfter(ciphered)
        /\ fn' = IF err = Nil
                 THEN [op |-> "export", format |-> format, decrypt |-> decrypt,
                       file |-> writtenFile(format, data),
                       originals |-> entries, stage |-> "exported"]
                 ELSE [op |-> "none"]
        /\ UNCHANGED <<isLocked, lastActivity, config, file, entries, now,
                       initPass, failedUnlocks, followed>>

\* app.New on a database file that does not exist yet: the tables are
\* created empty, the configuration and with it the master key are the same
NewEmptyVault ==
    /\ fn.op = "export" /\ fn.stage = "exported"
    /\ config' = file
    /\ isLocked' = TRUE
    /\ lastActivity' = now
    /\ entries' = {}
    /\ last' = Call("New", Nil, "", FALSE)
    /\ fn' = [fn EXCEPT !.stage = "emptied"]
    /\ UNCHANGED <<file, now, cipherKey, initPass, failedUnlocks, followed>>

\* pm import of the exported file, in its format, into the emptied vault
ImportExported(skipDups) ==
    /\ fn.op = "export" /\ fn.stage = "emptied"
    /\ newImportCmd(fn.file, fn.format, FALSE, skipDups)
    /\ fn' = [fn EXCEPT !.stage = IF last'.err = ErrLockedCmd THEN "emptied"
                                  ELSE "imported"]
    /\ UNCHANGED followed

\* the vault is the one the entries were added to, not the emptied one
InFirstVault == ~(fn.op = "export" /\ fn.stage # "exported")

NextExport ==
    \/ Lock /\ UNCHANGED aux
    \/ \E p \in Passphrases : Unlock(p) /\ UNCHANGED aux
    \/ \E i \in 1..Len(ExportNames), pw \in ExportSecrets, n \in Nonces :
          /\ InFirstVault
          /\ newAddCmd(ExportNames[i], pw, n)
          /\ fn' = [op |-> "none"]
          /\ UNCHANGED followed
    \/ \E format \in Formats, decrypt \in BOOLEAN :
          InFirstVault /\ newExportCmd(format, decrypt)
    \/ NewEmptyVault
    \/ \E skipDups \in BOOLEAN : ImportExported(skipDups)

SpecExport == InitImport /\ [][NextExport]_vars

\* ================================================================ pm update
\* the two entries of the vault, added at time 0
UpdateRows ==
    {[Name |-> "github", Username |-> "alice", URL |-> "https://github.com",
      Password |-> Encrypt(<<"p", "w">>, DeriveKey("CorrectHorse1!", <<1>>), 1).out,
      Notes |-> "work", Tags |-> <<"dev">>, CreatedAt |-> 0, UpdatedAt |-> 0],
     [Name |-> "mail", Username |-> "alice", URL |-> "",
      Password |-> Encrypt(<<"x">>, DeriveKey("CorrectHorse1!", <<1>>), 2).out,
      Notes |-> "", Tags |-> <<>>, CreatedAt |-> 0, UpdatedAt |-> 0]}

InitUpdate ==
    /\ isLocked = TRUE
    /\ lastActivity = 0
    /\ config = [DefaultConfig EXCEPT
                    !.MasterHash = DeriveKey("CorrectHorse1!", <<1>>),
                    !.Salt = <<1>>]
    /\ file = config
    /\ entries = UpdateRows
    /\ now = 0
    /\ cipherKey = <<>>
    /\ initPass = "CorrectHorse1!"
    /\ failedUnlocks = 0
    /\ last = [op |-> "New", err |-> Nil, arg |-> "", cipher |-> FALSE,
               wasLocked |-> TRUE]
    /\ followed = {}
    /\ fn = [op |-> "none"]

\* the flags of update: a flag not given has its default, the empty string;
\* password is a sequence of characters, tags a text of words, "," and " "
NoFlags ==
    [username |-> "", password |-> <<>>, url |-> "", notes |-> "",
     tags |-> <<>>, generate |-> FALSE]

UpdateFlags ==
    {NoFlags,
     [NoFlags EXCEPT !.username = "bob"],
     [NoFlags EXCEPT !.password = <<"n", "w">>],
     [NoFlags EXCEPT !.generate = TRUE],
     [NoFlags EXCEPT !.url = "https://example.com", !.notes = "home",
                     !.tags = <<"a", ",", " ", "b">>]}

\* what generatePassword returns for update --generate
GeneratedPassword == <<"G", "7", "!", "g">>

\* strings.Split(tags, ","): cur is the piece before the next ","
RECURSIVE SplitComma(_, _)
SplitComma(t, cur) ==
    IF t = <<>> THEN <<cur>>
    ELSE IF Head(t) = "," THEN <<cur>> \o SplitComma(Tail(t), <<>>)
    ELSE SplitComma(Tail(t), Append(cur, Head(t)))

\* strings.TrimSpace of a piece
RECURSIVE TrimSpace(_)
TrimSpace(t) ==
    IF t = <<>> THEN t
    ELSE IF Head(t) = " " THEN TrimSpace(Tail(t))
    ELSE IF t[Len(t)] = " " THEN TrimSpace(SubSeq(t, 1, Len(t) - 1))
    ELSE t

\* a piece as a tag: one word, or no text
TagOf(t) == IF t = <<>> THEN "" ELSE IF Len(t) = 1 THEN t[1] ELSE "(other)"

tagList(tags) ==
    [i \in 1..Len(SplitComma(tags, <<>>)) |->
        TagOf(TrimSpace(SplitComma(tags, <<>>)[i]))]

\* mutant: the field is set to the flag also when the flag is not given
updatedField_Always(old, flag) == flag

\* if flag != "" { entry.Field = flag }
updatedField(old, flag) == IF flag # "" THEN flag ELSE old

\* pm update <name> with the flags f; the history keeps the name and the flags
newUpdateCmd(name, f, nonce) ==
    LET got == GetEntry(name)
        newPassword == IF f.generate THEN GeneratedPassword ELSE f.password
        setsPassword == f.generate \/ f.password # <<>>
        enc == EncryptPassword(newPassword, nonce)
        entry == [got.entry EXCEPT
                     !.Username = updatedField(@, f.username),
                     !.Password = IF setsPassword THEN enc.out ELSE @,
                     !.URL = updatedField(@, f.url),
                     !.Notes = updatedField(@, f.notes),
                     !.Tags = IF f.tags # <<>> THEN tagList(f.tags) ELSE @]
        res == UpdateEntry(entry)
        fails(err, cipher) ==
            /\ last' = Call("update", err, [name |-> name, flags |-> f], cipher)
            /\ cipherKey' = KeyAfter(cipher)
            /\ UNCHANGED <<isLocked, lastActivity, config, file, entries, now,
                           initPass, failedUnlocks>>
    IN  IF PersistentPreRunE("update") # Nil
        THEN fails(PersistentPreRunE("update"), FALSE)
        ELSE IF isLocked THEN fails(ErrLockedCmd, FALSE)
        ELSE IF got.err # Nil THEN fails(got.err, FALSE)
        ELSE IF setsPassword /\ enc.err # Nil THEN fails(enc.err, enc.cipher)
        ELSE /\ entries' = res.rows
             /\ last' = Call("update", res.err, [name |-> name, flags |-> f],
                             setsPassword)
             /\ cipherKey' = KeyAfter(setsPassword)
             /\ UNCHANGED <<isLocked, lastActivity, config, file, now,
                            initPass, failedUnlocks>>

NextUpdate ==
    \/ Lock /\ UNCHANGED aux
    \/ \E p \in Passphrases : Unlock(p) /\ UNCHANGED aux
    \/ Tick /\ UNCHANGED aux
    \/ \E name \in {"github", "nosuch"}, f \in UpdateFlags, n \in Nonces :
          newUpdateCmd(name, f, n) /\ UNCHANGED aux

SpecUpdate == InitUpdate /\ [][NextUpdate]_vars

\* ================================================= goroutines sharing an App
\* the goroutines, each running one method of the App after the other
Goroutines == {"g1", "g2"}
\* the methods that take a.mu.Lock()
Writers == {"Lock", "Unlock", "CheckAutoLock"}
\* the blob DecryptMasterPassword is given
SharedBlob == Encrypt(<<"p", "w">>, DeriveKey("CorrectHorse1!", <<1>>), 1).out

\* an unlocked session with auto_lock_timeout set to 2 seconds; fn is a.mu
\* (the goroutine holding the write lock, the goroutines holding read locks),
\* the position of each goroutine and the value of isLocked each one read
InitShared ==
    /\ isLocked = FALSE
    /\ lastActivity = 0
    /\ config = [DefaultConfig EXCEPT
                    !.MasterHash = DeriveKey("CorrectHorse1!", <<1>>),
                    !.Salt = <<1>>, !.AutoLockTimeout = 2]
    /\ file = config
    /\ entries = {}
    /\ now = 0
    /\ cipherKey = <<>>
    /\ initPass = "CorrectHorse1!"
    /\ failedUnlocks = 0
    /\ last = [op |-> "Unlock", err |-> Nil, arg |-> "", cipher |-> FALSE,
               wasLocked |-> TRUE]
    /\ followed = {}
    /\ fn = [op |-> "goroutines", writer |-> "", readers |-> {},
             pc |-> [g \in Goroutines |-> "idle"],
             saw |-> [g \in Goroutines |-> FALSE]]

At(g, pc) == fn.pc[g] = pc
Goto(g, pc) == [fn EXCEPT !.pc[g] = pc]

\* a goroutine calls Lock, Unlock or CheckAutoLock and waits at a.mu.Lock()
CallWriter(g, m) ==
    /\ At(g, "idle")
    /\ fn' = Goto(g, m)
    /\ UNCHANGED <<app, followed>>

\* a.mu.Lock() returns: no goroutine holds the mutex
MuLock(g) ==
    /\ fn.pc[g] \in Writers
    /\ fn.writer = "" /\ fn.readers = {}
    /\ fn' = [fn EXCEPT !.writer = g]
    /\ UNCHANGED <<app, followed>>

\* the body of the method, and the deferred a.mu.Unlock()
LockBody(g) ==
    /\ At(g, "Lock") /\ fn.writer = g
    /\ Lock
    /\ fn' = [Goto(g, "idle") EXCEPT !.writer = ""]
    /\ UNCHANGED followed

UnlockBody(g, masterPassword) ==
    /\ At(g, "Unlock") /\ fn.writer = g
    /\ Unlock(masterPassword)
    /\ fn' = [Goto(g, "idle") EXCEPT !.writer = ""]
    /\ UNCHANGED followed

CheckAutoLockBody(g) ==
    /\ At(g, "CheckAutoLock") /\ fn.writer = g
    /\ CheckAutoLock
    /\ fn' = [Goto(g, "idle") EXCEPT !.writer = ""]
    /\ UNCHANGED followed

\* EncryptPassword calls a.IsLocked(), which waits at a.mu.RLock()
CallEncryptPasswordG(g) ==
    /\ At(g, "idle")
    /\ fn' = Goto(g, "Encrypt:RLock")
    /\ UNCHANGED <<app, followed>>

\* a.mu.RLock() returns: no goroutine holds the write lock
MuRLock(g) ==
    /\ At(g, "Encrypt:RLock")
    /\ fn.writer = ""
    /\ fn' = [Goto(g, "Encrypt:read") EXCEPT !.readers = @ \cup {g}]
    /\ UNCHANGED <<app, followed>>

\* IsLocked returns a.isLocked, and the deferred a.mu.RUnlock()
IsLockedReturn(g) ==
    /\ At(g, "Encrypt:read")
    /\ fn' = [Goto(g, "Encrypt:checked") EXCEPT
                 !.readers = @ \ {g}, !.saw[g] = isLocked]
    /\ UNCHANGED <<app, followed>>

\* the rest of EncryptPassword: the error, or Encrypt with a.Config.MasterHash
EncryptPasswordRest(g, password, nonce) ==
    /\ At(g, "Encrypt:checked")
    /\ IF fn.saw[g]
       THEN /\ last' = Call("EncryptPassword", ErrLockedEncrypt, <<>>, FALSE)
            /\ UNCHANGED cipherKey
       ELSE /\ last' = Call("EncryptPassword",
                            Encrypt(password, config.MasterHash, nonce).err,
                            <<>>, TRUE)
            /\ cipherKey' = config.MasterHash
    /\ fn' = [Goto(g, "idle") EXCEPT !.saw[g] = FALSE]
    /\ UNCHANGED <<isLocked, lastActivity, config, file, entries, now,
                   initPass, failedUnlocks, followed>>

\* DecryptMasterPassword is about to read a.isLocked, the mutex not taken
CallDecryptMasterPasswordG(g) ==
    /\ At(g, "idle")
    /\ fn' = Goto(g, "Decrypt:read")
    /\ UNCHANGED <<app, followed>>

\* if a.isLocked: the read races with a goroutine that holds the write lock
\* and may then give either value
ReadIsLocked(g) ==
    /\ At(g, "Decrypt:read")
    /\ \E v \in IF fn.writer = "" THEN {isLocked} ELSE BOOLEAN :
          fn' = [Goto(g, "Decrypt:checked") EXCEPT !.saw[g] = v]
    /\ UNCHANGED <<app, followed>>

\* the rest of DecryptMasterPassword
DecryptMasterPasswordRest(g) ==
    /\ At(g, "Decrypt:checked")
    /\ IF fn.saw[g]
       THEN /\ last' = Call("DecryptMasterPassword", ErrLockedDecrypt, <<>>, FALSE)
            /\ UNCHANGED cipherKey
       ELSE /\ last' = Call("DecryptMasterPassword",
                            Decrypt(SharedBlob, config.MasterHash).err,
                            Decrypt(SharedBlob, config.MasterHash).out, TRUE)
            /\ cipherKey' = config.MasterHash
    /\ fn' = [Goto(g, "idle") EXCEPT !.saw[g] = FALSE]
    /\ UNCHANGED <<isLocked, lastActivity, config, file, entries, now,
                   initPass, failedUnlocks, followed>>

NextShared ==
    \/ \E g \in Goroutines, m \in Writers : CallWriter(g, m)
    \/ \E g \in Goroutines : MuLock(g)
    \/ \E g \in Goroutines : LockBody(g)
    \/ \E g \in Goroutines, p \in Passphrases : UnlockBody(g, p)
    \/ \E g \in Goroutines : CheckAutoLockBody(g)
    \/ \E g \in Goroutines : CallEncryptPasswordG(g)
    \/ \E g \in Goroutines : MuRLock(g)
    \/ \E g \in Goroutines : IsLockedReturn(g)
    \/ \E g \in Goroutines, pw \in Plaintexts, n \in Nonces :
          EncryptPasswordRest(g, pw, n)
    \/ \E g \in Goroutines : CallDecryptMasterPasswordG(g)
    \/ \E g \in Goroutines : ReadIsLocked(g)
    \/ \E g \in Goroutines : DecryptMasterPasswordRest(g)
    \/ Tick /\ UNCHANGED aux

SpecShared == InitShared /\ [][NextShared]_vars

\* ======================================== one process for every command line
\* the commands that test app.IsLocked() first, by the name the history
\* records them under
GatedCommands ==
    {"add", "get", "list", "update", "delete", "search", "audit", "export",
     "import", "import --dry-run", "stats", "backup", "restore"}
\* those of them run here up to the test of app.IsLocked()
GatedOnly ==
    {"get", "list", "update", "delete", "search", "audit", "export", "stats",
     "backup", "restore"}

\* no process has run yet; fn is the process: where main is, the error its
\* command returned, the signal goroutine, the goroutines inside App.Close,
\* the calls of Storage.Close completed, and whether some earlier process
\* has run unlock with success
InitProcess ==
    /\ isLocked = TRUE
    /\ lastActivity = 0
    /\ config = DefaultConfig
    /\ file = DefaultConfig
    /\ entries = {}
    /\ now = 0
    /\ cipherKey = <<>>
    /\ initPass = ""
    /\ failedUnlocks = 0
    /\ last = [op |-> "exit", err |-> Nil, arg |-> "", cipher |-> FALSE,
               wasLocked |-> TRUE]
    /\ followed = {}
    /\ fn = [op |-> "process", pc |-> "none", err |-> Nil, sig |-> "waiting",
             closing |-> {}, closes |-> 0, unlocked |-> FALSE]

\* the process is running
Alive == fn.pc \notin {"none", "exited"}

\* main: signal.Notify, app.New(), the signal goroutine is started, and
\* rootCmd.Execute() is about to run the command
main_New ==
    /\ ~Alive
    /\ New
    /\ fn' = [fn EXCEPT !.pc = "Execute", !.err = Nil, !.sig = "waiting",
                        !.closing = {}, !.closes = 0]
    /\ UNCHANGED followed

\* rootCmd.Execute() returns the error of the command
Returns == [fn EXCEPT !.pc = "returned", !.err = last'.err]

\* if err := rootCmd.Execute(); err != nil { ...; os.Exit(1) }: the deferred
\* cleanup does not run
main_Exit ==
    /\ fn.pc = "returned" /\ fn.err # Nil
    /\ fn' = [fn EXCEPT !.pc = "exited"]
    /\ UNCHANGED <<app, followed>>

\* main returns: the deferred cleanup calls app.Close()
main_Cleanup ==
    /\ fn.pc = "returned" /\ fn.err = Nil
    /\ fn' = [fn EXCEPT !.pc = "Close", !.closing = @ \cup {"main"}]
    /\ UNCHANGED <<app, followed>>

\* Storage.Close returns to main, and the process ends
main_Closed ==
    /\ fn.pc = "Close"
    /\ fn' = [fn EXCEPT !.pc = "exited", !.closing = @ \ {"main"},
                        !.closes = @ + 1]
    /\ UNCHANGED <<app, followed>>

\* <-sigChan: SIGINT or SIGTERM arrives while the process runs
sig_Received ==
    /\ Alive /\ fn.sig = "waiting"
    /\ fn' = [fn EXCEPT !.sig = "received"]
    /\ UNCHANGED <<app, followed>>

\* the signal goroutine calls cleanup()
sig_Cleanup ==
    /\ Alive /\ fn.sig = "received"
    /\ fn' = [fn EXCEPT !.sig = "Close", !.closing = @ \cup {"signal"}]
    /\ UNCHANGED <<app, followed>>

\* Storage.Close returns to the signal goroutine
sig_Closed ==
    /\ Alive /\ fn.sig = "Close"
    /\ fn' = [fn EXCEPT !.sig = "closed", !.closing = @ \ {"signal"},
                        !.closes = @ + 1]
    /\ UNCHANGED <<app, followed>>

\* os.Exit(0) in the signal goroutine
sig_Exit ==
    /\ Alive /\ fn.sig = "closed"
    /\ fn' = [fn EXCEPT !.pc = "exited"]
    /\ UNCHANGED <<app, followed>>

\* pm unlock
newUnlockCmd(password) ==
    /\ fn.pc = "Execute"
    /\ IF PersistentPreRunE("unlock") # Nil
       THEN /\ last' = Call("unlock", PersistentPreRunE("unlock"), "", FALSE)
            /\ UNCHANGED <<isLocked, lastActivity, config, file, entries, now,
                           cipherKey, initPass, failedUnlocks>>
       ELSE Unlock(password)
    /\ fn' = [Returns EXCEPT !.unlocked = @ \/ ~isLocked']
    /\ UNCHANGED followed

\* pm lock
newLockCmd ==
    /\ fn.pc = "Execute"
    /\ IF PersistentPreRunE("lock") # Nil
       THEN /\ last' = Call("lock", PersistentPreRunE("lock"), "", FALSE)
            /\ UNCHANGED <<isLocked, lastActivity, config, file, entries, now,
                           cipherKey, initPass, failedUnlocks>>
       ELSE Lock
    /\ fn' = Returns
    /\ UNCHANGED followed

\* a command up to its test of app.IsLocked(): Nil when it goes on
\* to its work
lockGate(name) ==
    IF PersistentPreRunE(name) # Nil THEN PersistentPreRunE(name)
    ELSE IF isLocked THEN ErrLockedCmd
    ELSE Nil

newGatedCmd(name) ==
    /\ fn.pc = "Execute"
    /\ last' = Call(name, lockGate(name), "", FALSE)
    /\ fn' = Returns
    /\ UNCHANGED <<isLocked, lastActivity, config, file, entries, now,
                   cipherKey, initPass, failedUnlocks, followed>>

NextProcess ==
    \/ main_New
    \/ \E f \in BOOLEAN, p \in Passphrases, c \in Passphrases :
          /\ fn.pc = "Execute"
          /\ newInitCmd(f, p, c)
          /\ fn' = Returns
          /\ UNCHANGED followed
    \/ \E p \in Passphrases : newUnlockCmd(p)
    \/ newLockCmd
    \/ \E nm \in Names, pw \in Plaintexts, n \in Nonces :
          /\ fn.pc = "Execute"
          /\ newAddCmd(nm, pw, n)
          /\ fn' = Returns
          /\ UNCHANGED followed
    \/ \E f \in ImportFiles, format \in Formats,
          dryRun \in BOOLEAN, skipDups \in BOOLEAN :
          /\ fn.pc = "Execute"
          /\ newImportCmd(f, format, dryRun, skipDups)
          /\ fn' = Returns
          /\ UNCHANGED followed
    \/ \E name \in GatedOnly : newGatedCmd(name)
    \/ main_Exit
    \/ main_Cleanup
    \/ main_Closed
    \/ sig_Received
    \/ sig_Cleanup
    \/ sig_Closed
    \/ sig_Exit
    \/ Tick /\ UNCHANGED aux

SpecProcess == InitProcess /\ [][NextProcess]_vars

\* ============================================ restore from a backup file
ErrBackupFileNotFound == "backup file not found"
ErrRestoreFailed == "restore failed"
ErrDatabaseClosed == "sql: database is closed"

\* the backup files restore is given: one that does not exist, one that
\* cannot be opened for reading, a directory (it opens, reading it fails),
\* and the backup of a vault without entries
BackupFiles ==
    {[kind |-> "missing", rows |-> {}],
     [kind |-> "unreadable", rows |-> {}],
     [kind |-> "directory", rows |-> {}],
     [kind |-> "good", rows |-> {}]}

\* copyFile(src, dst): the error and the rows of the destination afterwards;
\* os.Create truncates the destination before io.Copy reads the source
copyFile(src, createOk) ==
    IF src.kind \in {"missing", "unreadable"}
    THEN [err |-> "failed to open source file", rows |-> entries]
    ELSE IF ~createOk
    THEN [err |-> "failed to create destination file", rows |-> entries]
    ELSE IF src.kind = "directory"
    THEN [err |-> "failed to copy file", rows |-> {}]
    ELSE [err |-> Nil, rows |-> src.rows]

\* Storage.Restore: the error, whether s.db is an open database afterwards,
\* and the rows of the database file; s.db.Close() comes first
Restore(src, createOk, openOk) ==
    LET copy == copyFile(src, createOk)
    IN  IF copy.err # Nil
        THEN [err |-> ErrRestoreFailed, open |-> FALSE, rows |-> copy.rows]
        ELSE IF ~openOk
        THEN [err |-> ErrRestoreFailed, open |-> FALSE, rows |-> copy.rows]
        ELSE [err |-> Nil, open |-> TRUE, rows |-> copy.rows]

\* an initialized vault, its database open
InitRestore ==
    /\ isLocked = TRUE
    /\ lastActivity = 0
    /\ config = [DefaultConfig EXCEPT
                    !.MasterHash = DeriveKey("CorrectHorse1!", <<1>>),
                    !.Salt = <<1>>]
    /\ file = config
    /\ entries = {}
    /\ now = 0
    /\ cipherKey = <<>>
    /\ initPass = "CorrectHorse1!"
    /\ failedUnlocks = 0
    /\ last = [op |-> "New", err |-> Nil, arg |-> "", cipher |-> FALSE,
               wasLocked |-> TRUE]
    /\ followed = {}
    /\ fn = [op |-> "restore", open |-> TRUE]

\* pm restore <backup-file> [--force], response the answer to the prompt
newRestoreCmd(src, force, response, createOk, openOk) ==
    IF PersistentPreRunE("restore") # Nil
    THEN /\ last' = Call("restore", PersistentPreRunE("restore"), "", FALSE)
         /\ UNCHANGED <<isLocked, lastActivity, config, file, entries, now,
                        cipherKey, initPass, failedUnlocks, fn>>
    ELSE IF isLocked
    THEN /\ last' = Call("restore", ErrLockedCmd, "", FALSE)
         /\ UNCHANGED <<isLocked, lastActivity, config, file, entries, now,
                        cipherKey, initPass, failedUnlocks, fn>>
    ELSE IF src.kind = "missing"
    THEN /\ last' = Call("restore", ErrBackupFileNotFound, "", FALSE)
         /\ UNCHANGED <<isLocked, lastActivity, config, file, entries, now,
                        cipherKey, initPass, failedUnlocks, fn>>
    ELSE IF ~force /\ response \notin {"y", "yes"}
    THEN /\ last' = Call("restore", Nil, "cancelled", FALSE)
         /\ UNCHANGED <<isLocked, lastActivity, config, file, entries, now,
                        cipherKey, initPass, failedUnlocks, fn>>
    ELSE \E res \in {Restore(src, createOk, openOk)} :
            /\ entries' = res.rows
            /\ fn' = [fn EXCEPT !.open = res.open]
            /\ last' = Call("restore", res.err, src.kind, FALSE)
            /\ UNCHANGED <<isLocked, lastActivity, config, file, now,
                           cipherKey, initPass, failedUnlocks>>

\* Storage.GetEntry on the same App, through s.db
StorageGetEntry(name) ==
    /\ last' = Call("GetEntry",
                    IF fn.open THEN GetEntry(name).err ELSE ErrDatabaseClosed,
                    name, FALSE)
    /\ UNCHANGED <<isLocked, lastActivity, config, file, entries, now,
                   cipherKey, initPass, failedUnlocks, fn>>

\* the next process: app.New() opens the database file again
NewStorage ==
    /\ New
    /\ fn' = [fn EXCEPT !.open = TRUE]
    /\ UNCHANGED followed

NextRestore ==
    \/ Lock /\ UNCHANGED aux
    \/ \E p \in Passphrases : Unlock(p) /\ UNCHANGED aux
    \/ NewStorage
    \/ \E name \in Names, pw \in Secrets, n \in Nonces :
          fn.open /\ newAddCmd(name, pw, n) /\ UNCHANGED aux
    \/ \E src \in BackupFiles, force \in BOOLEAN, response \in {"y", "n"},
          createOk \in BOOLEAN, openOk \in BOOLEAN :
          newRestoreCmd(src, force, response, createOk, openOk)
             /\ UNCHANGED followed
    \/ \E name \in Names : StorageGetEntry(name) /\ UNCHANGED followed
    \/ Tick /\ UNCHANGED aux

SpecRestore == InitRestore /\ [][NextRestore]_vars

\* ======================================================= password expiry
ErrNegativeExpiration == "expiration days must be non-negative"

\* a time.Time: the zero value, or the day it falls on
ZeroTime == [zero |-> TRUE, day |-> 0]
Day(d) == [zero |-> FALSE, day |-> d]

\* the largest time.Duration (1<<63 - 1 nanoseconds), in whole days
MaxDurationDays == 106751

\* time.Since(t).Hours() / 24 on day today; Time.Sub saturates at the
\* largest Duration
Since(t, today) == IF t.zero THEN MaxDurationDays ELSE today - t.day

\* the values `config set password_expiration` is called with
Expirations == {-1, 0, 1}

\* the created_at and updated_at of the Entry literal newAddCmd hands to
\* AddEntry: it sets neither field
AddStamps == [CreatedAt |-> ZeroTime, UpdatedAt |-> ZeroTime]

\* an initialized vault holding the entry "mail", imported on day 0 from a
\* file that gives its created_at and updated_at as day 0; fn holds today,
\* the created_at and updated_at columns of the rows, and the day each
\* entry made by add was added
InitExpiry ==
    /\ isLocked = TRUE
    /\ lastActivity = 0
    /\ config = [DefaultConfig EXCEPT
                    !.MasterHash = DeriveKey("CorrectHorse1!", <<1>>),
                    !.Salt = <<1>>]
    /\ file = config
    /\ entries = {[Name |-> "mail",
                   Password |-> Encrypt(<<"p", "w">>,
                                        DeriveKey("CorrectHorse1!", <<1>>),
                                        1).out]}
    /\ now = 0
    /\ cipherKey = <<>>
    /\ initPass = "CorrectHorse1!"
    /\ failedUnlocks = 0
    /\ last = [op |-> "New", err |-> Nil, arg |-> "", cipher |-> FALSE,
               wasLocked |-> TRUE]
    /\ followed = {}
    /\ fn = [op |-> "expiry", today |-> 0,
             stamps |-> ("mail" :> [CreatedAt |-> Day(0), UpdatedAt |-> Day(0)]),
             addedOn |-> [n \in {} |-> 0]]

\* a day passes
DayPasses ==
    /\ fn.today < MaxDays
    /\ fn' = [fn EXCEPT !.today = @ + 1]
    /\ last' = Call("DayPasses", Nil, "", FALSE)
    /\ UNCHANGED <<isLocked, lastActivity, config, file, entries, now,
                   cipherKey, initPass, failedUnlocks, followed>>

\* pm add <name> --password <password>, with the timestamps of its row
newAddCmdStamps(name, password, nonce) ==
    /\ newAddCmd(name, password, nonce)
    /\ fn' = IF last'.err = Nil
             THEN [fn EXCEPT !.stamps = (name :> AddStamps) @@ @,
                             !.addedOn = (name :> fn.today) @@ @]
             ELSE fn
    /\ UNCHANGED followed

\* pm config set password_expiration <value>
newConfigSetPasswordExpiration(value) ==
    IF PersistentPreRunE("set") # Nil
    THEN /\ last' = Call("config set", PersistentPreRunE("set"), "", FALSE)
         /\ UNCHANGED <<isLocked, lastActivity, config, file, entries, now,
                        cipherKey, initPass, failedUnlocks>>
    ELSE IF value < 0
    THEN /\ last' = Call("config set", ErrNegativeExpiration, "", FALSE)
         /\ UNCHANGED <<isLocked, lastActivity, config, file, entries, now,
                        cipherKey, initPass, failedUnlocks>>
    ELSE /\ config' = [config EXCEPT !.PasswordExpiration = value]
         /\ file' = config'
         /\ last' = Call("config set", Nil, "", FALSE)
         /\ UNCHANGED <<isLocked, lastActivity, entries, now, cipherKey,
                        initPass, failedUnlocks>>

\* the names of the entries whose age is greater than PasswordExpiration
Expired ==
    {e.Name : e \in {x \in entries :
                        Since(fn.stamps[x.Name].UpdatedAt, fn.today)
                           > config.PasswordExpiration}}

\* the error of the first app.DecryptPassword of a loop over the entries
decryptAll ==
    IF \E e \in entries : DecryptPassword(e.Password).err # Nil
    THEN "failed to decrypt password"
    ELSE Nil

\* pm list: the names it marks with "!"
newListCmd ==
    /\ last' = Call("list", lockGate("list"),
                    IF lockGate("list") = Nil THEN Expired ELSE {}, FALSE)
    /\ UNCHANGED <<isLocked, lastActivity, config, file, entries, now,
                   cipherKey, initPass, failedUnlocks>>

\* pm stats --detailed: the entries it counts in expiredCount
newStatsCmd ==
    IF lockGate("stats") # Nil
    THEN /\ last' = Call("stats --detailed", lockGate("stats"), {}, FALSE)
         /\ UNCHANGED <<isLocked, lastActivity, config, file, entries, now,
                        cipherKey, initPass, failedUnlocks>>
    ELSE /\ last' = Call("stats --detailed", decryptAll,
                         IF decryptAll = Nil THEN Expired ELSE {},
                         entries # {})
         /\ cipherKey' = KeyAfter(entries # {})
         /\ UNCHANGED <<isLocked, lastActivity, config, file, entries, now,
                        initPass, failedUnlocks>>

\* pm audit [--expired=false]: the names it reports as expired
newAuditCmd(checkExpired) ==
    IF lockGate("audit") # Nil
    THEN /\ last' = Call("audit", lockGate("audit"), {}, FALSE)
         /\ UNCHANGED <<isLocked, lastActivity, config, file, entries, now,
                        cipherKey, initPass, failedUnlocks>>
    ELSE /\ last' = Call("audit", decryptAll,
                         IF /\ decryptAll = Nil
                            /\ checkExpired
                            /\ config.PasswordExpiration > 0
                         THEN Expired ELSE {},
                         entries # {})
         /\ cipherKey' = KeyAfter(entries # {})
         /\ UNCHANGED <<isLocked, lastActivity, config, file, entries, now,
                        initPass, failedUnlocks>>

\* the commands that report expired passwords
ExpiryReports == {"list", "stats --detailed", "audit"}

NextExpiry ==
    \/ Lock /\ UNCHANGED aux
    \/ \E p \in Passphrases : Unlock(p) /\ UNCHANGED aux
    \/ DayPasses
    \/ \E name \in Names, pw \in Secrets, n \in Nonces :
          newAddCmdStamps(name, pw, n)
    \/ \E v \in Expirations : newConfigSetPasswordExpiration(v) /\ UNCHANGED aux
    \/ newListCmd /\ UNCHANGED aux
    \/ newStatsCmd /\ UNCHANGED aux
    \/ \E checkExpired \in BOOLEAN : newAuditCmd(checkExpired) /\ UNCHANGED aux

SpecExpiry == InitExpiry /\ [][NextExpiry]_vars

\* ================================================================== claims
\* the idle time has reached a positive AutoLockTimeout
IdleExpired ==
    config.AutoLockTimeout > 0 /\ now - lastActivity >= config.AutoLockTimeout

\* C1: a call of EncryptPassword or DecryptMasterPassword made while the
\* session is Locked returns a locked error, does not call the cipher and
\* yields no plaintext.
C1_LockedRefusesCipher ==
    (last.op \in {"EncryptPassword", "DecryptMasterPassword"} /\ last.wasLocked)
        => (last.err \in LockedErrors /\ ~last.cipher /\ last.arg = <<>>)

C1_Witness ==
    /\ last.op = "DecryptMasterPassword"
    /\ last.wasLocked
    /\ last.err = ErrLockedDecrypt
    /\ entries # {}

\* C2 as stated: an Unlock whose re-derived key does not match the stored
\* verification value returns the invalid-master-password error and the
\* session is Locked when the call returns, whatever the state before.
C2_FailedUnlockIsLocked ==
    (last.op = "Unlock" /\ DeriveKey(last.arg, config.Salt) # config.MasterHash)
        => (last.err = ErrInvalidMasterPassword /\ isLocked)

\* C2 amended: such an Unlock returns the invalid-master-password error and
\* leaves the session as it was: Locked stays Locked, Unlocked stays Unlocked.
C2_FailedUnlockKeepsState ==
    (last.op = "Unlock" /\ DeriveKey(last.arg, config.Salt) # config.MasterHash)
        => (last.err = ErrInvalidMasterPassword /\ isLocked = last.wasLocked)

C2_Witness ==
    /\ last.op = "Unlock"
    /\ IsInitialized
    /\ DeriveKey(last.arg, config.Salt) # config.MasterHash
    /\ last.wasLocked
    /\ isLocked

\* C3: after init with passphrase P, Unlock(P) succeeds, the session is
\* Unlocked and lastActivity is the current time, however many failed Unlock
\* calls came before.
C3_NoLockout ==
    (last.op = "Unlock" /\ initPass # "" /\ last.arg = initPass)
        => (last.err = Nil /\ ~isLocked /\ lastActivity = now)

C3_Witness ==
    /\ last.op = "Unlock"
    /\ last.arg = initPass
    /\ last.err = Nil
    /\ failedUnlocks >= MaxFailed
    /\ now > 0

\* C4: in a Locked state no exported field of the App holds the key the
\* cipher was called with in the session before (Config.MasterHash included).
C4_NoKeyWhileLocked ==
    (isLocked /\ cipherKey # <<>>) => config.MasterHash # cipherKey

\* C5: the verification value in the configuration file is never the key
\* that Encrypt and Decrypt are called with.
C5_KeyNotPersisted ==
    cipherKey # <<>> => file.MasterHash # cipherKey

\* C6: CheckAutoLock locks an Unlocked session exactly when AutoLockTimeout
\* is positive and the idle time has reached it; otherwise the session state
\* is unchanged, and a Locked session is never unlocked by it.
C6_AutoLockExactly ==
    last.op = "CheckAutoLock" => (isLocked = (last.wasLocked \/ IdleExpired))

C6_Witness ==
    /\ last.op = "CheckAutoLock"
    /\ ~last.wasLocked
    /\ isLocked
    /\ now - lastActivity = config.AutoLockTimeout

\* C7: a sensitive command (add) run on an Unlocked session whose idle time
\* has reached a positive AutoLockTimeout is refused as locked and does not
\* call the cipher.
C7_IdleCommandRefused ==
    (last.op = "add" /\ ~last.wasLocked /\ IdleExpired)
        => (last.err \in LockedErrors /\ ~last.cipher)

\* C8: after Lock the session is Locked whatever the state before, and Lock
\* on a session that is already Locked (the second Lock of Lock();Lock())
\* changes nothing of the App.
C8_LockIdempotent ==
    [][last'.op = "Lock" =>
          /\ isLocked'
          /\ lastActivity' = lastActivity
          /\ config' = config
          /\ (isLocked => AppState' = AppState)]_vars

C8_Witness ==
    last.op = "Lock" /\ last.wasLocked /\ IsInitialized

\* C9: init without --force on an initialized vault fails with the
\* already-initialized error and leaves MasterHash, Salt, the configuration
\* file and the entries unchanged; every passphrase validates as before.
C9_InitRefusedWhenInitialized ==
    [][(last'.op = "init" /\ IsInitialized) =>
          /\ last'.err = ErrAlreadyInitialized
          /\ config'.MasterHash = config.MasterHash
          /\ config'.Salt = config.Salt
          /\ file' = file
          /\ entries' = entries
          /\ \A q \in Passphrases :
                ValidateMasterPassword(q)' = ValidateMasterPassword(q)]_vars

C9_Witness ==
    /\ last.op = "init"
    /\ last.err = ErrAlreadyInitialized
    /\ entries # {}

\* C10: whenever init completes successfully the session is Locked
\* afterwards, init --force on an Unlocked session included.
C10_InitLeavesLocked ==
    (last.op \in {"init", "init --force"} /\ last.err = Nil) => isLocked

\* C11: while MasterHash is empty, PersistentPreRunE rejects every command
\* other than init with the not-initialized error, a command that was run
\* returned that error without calling the cipher, the session is Locked and
\* the entries, the configuration and its file are as New left them (no
\* command has touched them), and Unlock fails for every passphrase.
C11_NothingBeforeInit ==
    ~IsInitialized =>
        /\ \A c \in Commands \ {"init"} : PersistentPreRunE(c) = ErrNotInitialized
        /\ last.op \in {"add", "config set"}
              => (last.err = ErrNotInitialized /\ ~last.cipher)
        /\ isLocked /\ entries = {} /\ cipherKey = <<>>
        /\ config = DefaultConfig /\ file = DefaultConfig
        /\ \A p \in Passphrases : ~ValidateMasterPassword(p)
        /\ last.op = "Unlock" => last.err = ErrInvalidMasterPassword

C11_Witness ==
    /\ ~IsInitialized
    /\ last.op = "add"
    /\ last.err = ErrNotInitialized
    /\ failedUnlocks > 0

\* C12: Decrypt of the whole blob Encrypt returned for plaintext P under a
\* valid key K, called with the same K, succeeds and returns exactly P; the
\* empty plaintext is one of the P.
C12_RoundTrip ==
    (fn.op = "Decrypt" /\ fn.data = fn.of.out /\ fn.key = fn.of.key)
        => (fn.err = Nil /\ fn.out = fn.of.data)

C12_Witness ==
    /\ fn.op = "Decrypt"
    /\ fn.data = fn.of.out
    /\ fn.key = fn.of.key
    /\ fn.of.data = <<>>
    /\ fn.err = Nil

\* C13: Decrypt of the whole blob Encrypt returned under key K1, called with
\* another valid key K2, returns the authentication error and no plaintext.
C13_KeyMismatch ==
    (fn.op = "Decrypt" /\ fn.data = fn.of.out /\ fn.key # fn.of.key
            /\ NewCipherOk(fn.key))
        => (fn.err = ErrAuthFailed /\ fn.out = <<>>)

C13_Witness ==
    /\ fn.op = "Decrypt"
    /\ fn.data = fn.of.out
    /\ fn.key # fn.of.key
    /\ NewCipherOk(fn.key)
    /\ Len(fn.of.data) = MaxPlainLen
    /\ fn.err = ErrAuthFailed

\* C16: in a vault that is not initialized again, DecryptMasterPassword called
\* in an Unlocked session on a blob that EncryptPassword(s) returned in an
\* Unlocked session returns s without error, whatever Lock, CheckAutoLock,
\* UpdateActivity, failed and successful Unlock calls and new processes came
\* in between.
C16_DecryptableAcrossRelocks ==
    (last.op = "DecryptMasterPassword" /\ ~last.wasLocked)
        => \A m \in followed : last.err = Nil /\ last.arg = m.s

C16_Witness ==
    /\ last.op = "DecryptMasterPassword"
    /\ ~last.wasLocked
    /\ failedUnlocks > 0
    /\ \E m \in followed : m.relocked /\ last.err = Nil /\ last.arg = m.s

\* C17: with the PasswordLength first-time setup configures, CheckPasswordHealth
\* reports all six checks true for "Str0ng!Pass", and length, uppercase and
\* numbers false for "abc".
C17_HealthExamples ==
    (fn.op = "CheckPasswordHealth" /\ fn.threshold = DefaultPasswordLength)
        => /\ fn.password = Str0ngPass
                => /\ fn.out.length /\ fn.out.uppercase /\ fn.out.lowercase
                   /\ fn.out.numbers /\ fn.out.specialChars /\ fn.out.notCommon
           /\ fn.password = Abc
                => ~fn.out.length /\ ~fn.out.uppercase /\ ~fn.out.numbers

\* no two stored entries share a name
NamesUnique == \A e1 \in entries, e2 \in entries : e1.Name = e2.Name => e1 = e2

StoreOps == {"AddEntry", "GetEntry", "UpdateEntry", "DeleteEntry"}

\* C18 as stated: AddEntry for a name that exists fails with ErrEntryExists;
\* GetEntry, UpdateEntry and DeleteEntry for a (non-empty) name that does not
\* exist fail with ErrEntryNotFound; a failing call leaves the stored entries unchanged;
\* no two stored entries share a name.
C18_StoreErrors ==
    /\ (fn.op = "AddEntry" /\ fn.existed) => fn.err = ErrEntryExists
    /\ (fn.op \in {"GetEntry", "UpdateEntry", "DeleteEntry"} /\ ~fn.existed
            /\ fn.name # "")
          => fn.err = ErrEntryNotFound
    /\ (fn.op \in StoreOps /\ fn.err # Nil) => entries = fn.before
    /\ NamesUnique

\* C18 amended: the same, for AddEntry and UpdateEntry of a valid entry (not
\* nil, name and password not empty); an invalid entry fails with the error
\* of ValidateEntry, whether its name exists or not.
C18_StoreErrorsForValidEntries ==
    /\ (fn.op = "AddEntry" /\ fn.existed /\ ValidateEntry(fn.entry) = Nil)
          => fn.err = ErrEntryExists
    /\ (fn.op \in {"GetEntry", "DeleteEntry"} /\ ~fn.existed)
          => fn.err = ErrEntryNotFound
    /\ (fn.op = "UpdateEntry" /\ ~fn.existed /\ ValidateEntry(fn.entry) = Nil)
          => fn.err = ErrEntryNotFound
    /\ (fn.op \in {"AddEntry", "UpdateEntry"} /\ ValidateEntry(fn.entry) # Nil)
          => fn.err = ValidateEntry(fn.entry)
    /\ (fn.op \in StoreOps /\ fn.err # Nil) => entries = fn.before
    /\ NamesUnique

C18_Witness ==
    /\ fn.op = "AddEntry"
    /\ fn.existed
    /\ fn.err = ErrEntryExists
    /\ fn.entry \notin entries
    /\ Cardinality(entries) = 2

\* C19: every run of generate with a length of at least 1, whatever the flags,
\* eventually returns a password of exactly the requested length.
C19_GenerateTerminates ==
    (fn.op = "generate" /\ fn.pc = "running")
        ~> (fn.op = "generate" /\ fn.pc = "returned"
               /\ Len(fn.result) = fn.length)

\* C14: Decrypt of a proper prefix of a blob Encrypt returned, the empty
\* prefix and the prefixes shorter than the nonce included, returns an error.
C14_TruncatedBlobFails ==
    (fn.op = "Decrypt" /\ Len(fn.data) < Len(fn.of.out)) => fn.err # Nil

\* C15 as stated: two Encrypt calls in a row under the same key never use
\* the same nonce, so their blobs for the same plaintext differ.
C15_NonceNeverRepeats ==
    (fn.op = "Encrypt" /\ fn.err = Nil /\ fn.prev # <<>>
            /\ fn.prev[1].key = fn.key)
        => /\ SubSeq(fn.out, 1, NonceLen) # SubSeq(fn.prev[1].out, 1, NonceLen)
           /\ fn.prev[1].data = fn.data => fn.out # fn.prev[1].out

\* C15 amended: every blob starts with the nonce its call drew from the
\* random source, and two Encrypt calls in a row under the same key return
\* different blobs for the same plaintext exactly when their draws differ.
C15_BlobsDifferWithDraws ==
    (fn.op = "Encrypt" /\ fn.err = Nil)
        => /\ SubSeq(fn.out, 1, NonceLen) = NonceBytes(fn.nonce)
           /\ (fn.prev # <<>> /\ fn.prev[1].key = fn.key
                   /\ fn.prev[1].data = fn.data)
                => ((fn.out = fn.prev[1].out) <=> (fn.nonce = fn.prev[1].nonce))

C15_Witness ==
    /\ fn.op = "Encrypt"
    /\ fn.err = Nil
    /\ fn.prev # <<>>
    /\ fn.prev[1].key = fn.key
    /\ fn.prev[1].data = fn.data
    /\ fn.data # <<>>
    /\ fn.nonce # fn.prev[1].nonce
    /\ fn.out # fn.prev[1].out

\* C20: import --dry-run makes no changes: whatever the file holds and
\* whether the command succeeds or fails, the stored entries and the
\* configuration, in memory and on disk, are after it what they were before.
C20_DryRunChangesNothing ==
    [][(last'.op = "import --dry-run")
          => (entries' = entries /\ config' = config /\ file' = file)]_vars

\* a dry run over a file with an entry the table does not hold succeeds,
\* reports the entry as imported, and the table is still empty
C20_Witness ==
    /\ last.op = "import --dry-run"
    /\ last.err = Nil
    /\ last.arg >= 1
    /\ entries = {}

\* C21: after export in either format and either mode, import of the file
\* into an empty vault with the same master key gives, for every exported
\* entry, an entry of the same name whose password decrypts to the same
\* plaintext as the original's.
C21_ExportImportRoundTrip ==
    (fn.op = "export" /\ fn.stage = "imported" /\ last.op = "import"
        /\ last.err = Nil)
      => \A o \in fn.originals :
           \E e \in entries :
             /\ e.Name = o.Name
             /\ Decrypt(e.Password, config.MasterHash).err = Nil
             /\ Decrypt(e.Password, config.MasterHash).out
                   = Decrypt(o.Password, config.MasterHash).out

\* C22: a successful update <name> leaves every other entry as it was and
\* the number of entries the same; of the entry named, the name and
\* created_at stay, every field whose flag was not given stays as it was,
\* and updated_at is the time of the update.
C22_UpdateChangesOnlyGivenFields ==
    [][(last'.op = "update" /\ last'.err = Nil)
          => LET name == last'.arg.name
                 f == last'.arg.flags
             IN  /\ \A e \in entries : e.Name # name => e \in entries'
                 /\ Cardinality(entries') = Cardinality(entries)
                 /\ \A e \in entries : e.Name = name =>
                      \E u \in entries' :
                         /\ u.Name = name
                         /\ u.CreatedAt = e.CreatedAt
                         /\ u.UpdatedAt = now
                         /\ f.username = "" => u.Username = e.Username
                         /\ (f.password = <<>> /\ ~f.generate)
                               => u.Password = e.Password
                         /\ f.url = "" => u.URL = e.URL
                         /\ f.notes = "" => u.Notes = e.Notes
                         /\ f.tags = <<>> => u.Tags = e.Tags]_vars

\* an update of the username alone, later than the entry was added, has
\* left the password blob and the creation time and set updated_at
C22_Witness ==
    /\ last.op = "update"
    /\ last.err = Nil
    /\ last.arg.flags.username = "bob"
    /\ last.arg.flags.password = <<>>
    /\ \E u \in entries :
          /\ u.Name = "github"
          /\ u.Username = "bob"
          /\ u.CreatedAt = 0
          /\ u.UpdatedAt = now
          /\ now > 0
          /\ u.Password \in {e.Password : e \in UpdateRows}

\* C23: with goroutines sharing the App, every goroutine about to read
\* isLocked in EncryptPassword or DecryptMasterPassword holds the mutex, and
\* neither method calls the cipher with the key while the session is Locked,
\* that is after Lock or an auto-relock of another goroutine has completed.
C23_CheckAndUseAtomic ==
    /\ \A g \in Goroutines :
          fn.pc[g] \in {"Encrypt:read", "Decrypt:read"}
             => (g \in fn.readers \/ fn.writer = g)
    /\ (last.op \in {"EncryptPassword", "DecryptMasterPassword"} /\ last.cipher)
          => ~last.wasLocked

\* the characters left out of the alphabets when no-ambiguous is set
AmbiguousChars == {"I", "O", "l", "o", "0", "1"}

\* C24: every password generatePasswordWithOptions returns is made of
\* characters of the enabled classes only, none of them ambiguous when
\* no-ambiguous is set, and has at least one character of each enabled class.
C24_GeneratedPasswordClasses ==
    (fn.op = "generate" /\ fn.pc = "returned")
      => /\ \A i \in 1..Len(fn.result) :
              /\ \/ fn.flags.uppercase /\ fn.result[i] \in UppercaseLetters
                 \/ fn.flags.lowercase /\ fn.result[i] \in LowercaseLetters
                 \/ fn.flags.numbers /\ fn.result[i] \in Digits
                 \/ fn.flags.special /\ fn.result[i] \in SpecialChars
              /\ fn.flags.noAmbiguous => fn.result[i] \notin AmbiguousChars
         /\ fn.flags.uppercase
               => \E i \in 1..Len(fn.result) : fn.result[i] \in UppercaseLetters
         /\ fn.flags.lowercase
               => \E i \in 1..Len(fn.result) : fn.result[i] \in LowercaseLetters
         /\ fn.flags.numbers
               => \E i \in 1..Len(fn.result) : fn.result[i] \in Digits
         /\ fn.flags.special
               => \E i \in 1..Len(fn.result) : fn.result[i] \in SpecialChars

\* a password of three classes, no-ambiguous set, was returned after a
\* rejected draw
C24_Witness ==
    /\ fn.op = "generate"
    /\ fn.pc = "returned"
    /\ fn.depth > 0
    /\ fn.flags.noAmbiguous
    /\ fn.flags.uppercase /\ fn.flags.numbers /\ fn.flags.special
    /\ Len(fn.result) = 3

\* C25 as stated: every process starts Locked, and a lock-gated command run
\* as the only command of its process is refused as locked.
C25_GatedRefusedAsLocked ==
    /\ fn.pc = "Execute" => isLocked
    /\ (fn.pc = "returned" /\ last.op \in GatedCommands)
          => last.err = ErrLockedCmd

\* C25 amended: every process starts Locked, and a lock-gated command run as
\* the only command of its process is refused and changes nothing, as locked
\* when the vault is initialized and as not initialized when it is not,
\* whatever unlock did in earlier processes.
C25_GatedRefused ==
    /\ fn.pc = "Execute" => isLocked
    /\ (fn.pc = "returned" /\ last.op \in GatedCommands)
          => /\ last.err = IF IsInitialized THEN ErrLockedCmd
                           ELSE ErrNotInitialized
             /\ ~last.cipher
             /\ entries = {}

\* an earlier process has run unlock with success, and add is refused
C25_Witness ==
    /\ fn.pc = "returned"
    /\ fn.unlocked
    /\ last.op = "add"
    /\ last.err = ErrLockedCmd

\* C26: on every path by which the process exits, Storage.Close has been
\* called exactly once, and no two goroutines are ever inside Close at the
\* same time.
C26_CloseExactlyOnce ==
    /\ fn.pc = "exited" => fn.closes = 1
    /\ Cardinality(fn.closing) <= 1

\* C27: when Storage.Restore returns an error, the database that was open is
\* still open and the rows it holds are those it held before the restore.
C27_FailedRestoreHarmless ==
    [][(last'.op = "restore" /\ last'.err = ErrRestoreFailed)
          => (fn'.open /\ entries' = entries)]_vars

\* C28: when the import command, run without --dry-run, returns an error
\* (it has not panicked), the stored entries are those stored before the
\* command started.
C28_ImportAllOrNothing ==
    [][(last'.op = ImportOp(FALSE) /\ last'.err \notin {Nil, ErrNilPointer})
          => entries' = entries]_vars

\* C29: an entry made by add is stored with CreatedAt and UpdatedAt equal to
\* the day of the add, and while PasswordExpiration > 0 and no more than
\* PasswordExpiration days have passed since, list, stats and audit do not
\* report it as expired.
C29_AddedNotExpiredEarly ==
    \A n \in DOMAIN fn.addedOn :
       /\ fn.stamps[n] = [CreatedAt |-> Day(fn.addedOn[n]),
                          UpdatedAt |-> Day(fn.addedOn[n])]
       /\ (/\ last.op \in ExpiryReports
           /\ last.err = Nil
           /\ config.PasswordExpiration > 0
           /\ fn.today - fn.addedOn[n] <= config.PasswordExpiration)
             => n \notin last.arg

\* C30: with PasswordExpiration = 0, list, stats --detailed and audit report
\* no entry as expired; stated for the entries whose updated_at is a real
\* time, whatever their age.
C30_ZeroDisablesExpiry ==
    (/\ last.op \in ExpiryReports
     /\ last.err = Nil
     /\ config.PasswordExpiration = 0)
       => {n \in last.arg : ~fn.stamps[n].UpdatedAt.zero} = {}
====
